---- MODULE Spec2Model ----
(***************************************************************************)
(* Model of the streaming process executor of the Telegram bridge:          *)
(* ClaudeProcessManager (bot/src/claude/cli_executor.py).  One invocation   *)
(* of execute_command is a small process: spawn, read the child's standard  *)
(* output line by line, classify and aggregate the records, forward the     *)
(* updates to the listener, await the exit status, build the response; the  *)
(* whole of the output handling runs under asyncio.wait_for.  The child and *)
(* the clock are the environment.                                           *)
(***************************************************************************)
EXTENDS Integers, Sequences, FiniteSets, TLC

(* ------------------------------ bounds --------------------------------- *)

\* The invocations of execute_command that may be in flight together.
Inv == {1, 2}

\* Lines one child writes to its standard output.
MaxLines == 2

\* Lines one child writes in the two-invocation specification.
MaxLinesConc == 1

\* Lines one child writes in the specification of the history buffer: more
\* than max_message_buffer.
MaxLinesBuf == 3

\* Messages one query() of the SDK yields.
MaxSdkMessages == 2

\* rate_limit_requests, scaled (settings default: 10).
limit == 2

\* rate_limit_window, in clock ticks (settings default: 60 seconds).
window == 2

\* The callers of the rate limiter.
Users == {1, 2}

\* Calls of is_allowed the callers make together.
MaxCalls == 5

\* time.time() stops advancing here.
MaxClock == 4

\* Requests handle_message serves.
MaxRequests == 4

\* Characters of one message to the user: 4096 in the handlers.
MaxMessageLength == 3

\* Clicks handle_callback_query handles.
MaxClicks == 2

\* Bytes one stream delivers to _read_stream_bounded.
MaxBytes == 4

\* streaming_buffer_size, scaled: the most bytes one read returns (the
\* code's value is 65536).
streaming_buffer_size == 2

\* claude_timeout_seconds, in clock ticks (settings default: 900 seconds).
Timeout == 1

\* The clock of an invocation stops advancing here.
MaxTime == 2

\* max_message_buffer, scaled (the code's value is 1000).
max_message_buffer == 2

(* ------------------------------ strings -------------------------------- *)
\* A string is a sequence of tokens; the empty string is <<>>.

RECURSIVE Join(_, _)
\* sep.join(parts)
Join(parts, sep) ==
    IF parts = <<>> THEN <<>>
    ELSE IF Len(parts) = 1 THEN parts[1]
    ELSE parts[1] \o sep \o Join(Tail(parts), sep)

\* s occurs in t as a contiguous piece
Contains(t, s) ==
    \E k \in 0..(Len(t) - Len(s)) :
        \A j \in 1..Len(s) : t[k + j] = s[j]

\* One byte of standard error: a piece of valid UTF-8, or a byte that is not.
InvalidByte == "0xFF"
ReplacementChar == "U+FFFD"

\* The two bytes of one two-byte character, and the character.
LeadByte == "0xC3"
ContByte == "0xA9"
TwoByteChar == "U+00E9"

RECURSIVE Decode(_)
\* bytes.decode("utf-8", errors="replace"): a lead byte followed by its
\* continuation byte is one character; a lead byte without it, a
\* continuation byte on its own and an invalid byte are each replaced.
Decode(bytes) ==
    IF bytes = <<>> THEN <<>>
    ELSE IF Len(bytes) >= 2 /\ bytes[1] = LeadByte /\ bytes[2] = ContByte
         THEN <<TwoByteChar>> \o Decode(SubSeq(bytes, 3, Len(bytes)))
    ELSE IF bytes[1] \in {InvalidByte, LeadByte, ContByte}
         THEN <<ReplacementChar>> \o Decode(Tail(bytes))
    ELSE <<bytes[1]>> \o Decode(Tail(bytes))

\* What a child may have written to standard error by the time it is closed.
StderrTexts == {<<>>, <<"disk full">>, <<"disk", InvalidByte>>}

(* ------------------------- records of the stream ----------------------- *)
\* A content block of an assistant record.
TextBlock(t)  == [isdict |-> TRUE, type |-> "text", text |-> t, name |-> "None"]
ToolBlock(n)  == [isdict |-> TRUE, type |-> "tool_use", text |-> <<>>, name |-> n]
NonDictBlock  == [isdict |-> FALSE, type |-> "", text |-> <<>>, name |-> "None"]

\* One line of standard output, as json.loads sees it.
\*   kind: "badjson" (json.loads raises), "notmap" (not a dict, or no "type"),
\*         "msg" (a dict with "type").
Line(kind, type, iterable, content, cost, sid) ==
    [kind |-> kind, type |-> type, iterable |-> iterable, content |-> content,
     total_cost_usd |-> cost, session_id |-> sid]

BadJson      == Line("badjson", "", TRUE, <<>>, 0, <<>>)
NotMapping   == Line("notmap", "", TRUE, <<>>, 0, <<>>)
SystemMsg    == Line("msg", "system", TRUE, <<>>, 0, <<>>)
ToolResult   == Line("msg", "tool_result", TRUE, <<>>, 0, <<>>)
Result1      == Line("msg", "result", TRUE, <<>>, 1, <<"s1">>)
Result2      == Line("msg", "result", TRUE, <<>>, 2, <<"s2">>)
Assistant(blocks) == Line("msg", "assistant", TRUE, blocks, 0, <<>>)
AsstHello    == Assistant(<<TextBlock(<<"Hello">>)>>)
AsstEmpty    == Assistant(<<TextBlock(<<>>)>>)
AsstTool     == Assistant(<<ToolBlock("Read")>>)
AsstBoth     == Assistant(<<TextBlock(<<"Hi">>), ToolBlock("Edit")>>)
AsstNothing  == Assistant(<<NonDictBlock>>)
AsstNoName   == Assistant(<<ToolBlock("None")>>)
AsstNull     == Line("msg", "assistant", FALSE, <<>>, 0, <<>>)

\* An assistant record whose content is missing or empty: msg.get("content",
\* []) gives the empty list.
AsstNoContent == Assistant(<<>>)

\* result_data = None
NoMsg        == Line("none", "", TRUE, <<>>, 0, <<>>)

\* What the caller, the child and the clock of an invocation may do in a
\* specification: whether a listener is passed, the lines written, how many,
\* the text on standard error, whether time passes while the child is
\* being spawned, and whether the child shuts down in order (standard
\* output reaches end of file before standard error does, and the child
\* exits after both, unless it is killed) or in any order.
StreamEnv ==
    [listeners |-> BOOLEAN,
     lines |-> {BadJson, NotMapping, Result1, Result2, AsstHello, AsstEmpty,
                AsstTool, AsstNull},
     max |-> MaxLines,
     stderr |-> StderrTexts, slowSpawn |-> TRUE, orderly |-> FALSE]
ConcEnv ==
    [listeners |-> {TRUE}, lines |-> {AsstHello, AsstNull}, max |-> MaxLinesConc,
     stderr |-> {<<"disk full">>}, slowSpawn |-> FALSE, orderly |-> TRUE]

\* A child that writes records of every shape, known or not.
ShapeEnv ==
    [listeners |-> {TRUE},
     lines |-> {BadJson, NotMapping, SystemMsg, ToolResult, AsstHello, AsstBoth,
                AsstNoContent, AsstNothing, AsstNoName, AsstNull},
     max |-> MaxLines,
     stderr |-> {<<>>}, slowSpawn |-> FALSE, orderly |-> FALSE]

\* A child that may write one line, close its pipes and exit, or do none of
\* these.
LiveEnv ==
    [listeners |-> BOOLEAN, lines |-> {AsstHello, BadJson},
     max |-> MaxLinesConc, stderr |-> {<<"disk full">>}, slowSpawn |-> FALSE,
     orderly |-> FALSE]

(* --------------------------- Event Classifier --------------------------- *)
\* The tool-use blocks and the text blocks of a record's content, in order.
ToolBlocks(msg) == SelectSeq(msg.content, LAMBDA b : b.isdict /\ b.type = "tool_use")
TextBlocks(msg) == SelectSeq(msg.content, LAMBDA b : b.isdict /\ b.type = "text")
ToolNames(msg)  == [k \in 1..Len(ToolBlocks(msg)) |-> ToolBlocks(msg)[k].name]
TextParts(msg)  == [k \in 1..Len(TextBlocks(msg)) |-> TextBlocks(msg)[k].text]

\* StreamUpdate; some = FALSE is the None that _parse_stream_message returns.
Update(type, content, tools) ==
    [some |-> TRUE, type |-> type, content |-> content, tool_calls |-> tools]
NoUpdate == [some |-> FALSE, type |-> "", content |-> <<>>, tool_calls |-> <<>>]

\* _parse_stream_message raises TypeError: iterating content that is no
\* sequence, or joining a tool name that is None.
ParseRaises(msg) ==
    /\ msg.type = "assistant"
    /\ \/ ~msg.iterable
       \/ \E k \in 1..Len(ToolNames(msg)) : ToolNames(msg)[k] = "None"

\* What the body of one loop iteration raises on a line.
LineException(line) ==
    IF line.kind = "badjson" THEN "JSONDecodeError"
    ELSE IF line.kind = "msg" /\ ParseRaises(line) THEN "TypeError"
    ELSE "None"

\* A loop whose body has no handler for a line that does not parse.
ExceptNothing(exc) == FALSE

\* except json.JSONDecodeError, around the body of the loop
ExceptJSONDecodeError(exc) == exc = "JSONDecodeError"

\* A listener call with no handler around it.
ExceptNoListenerFailure(exc) == FALSE

\* except Exception, around the call of the listener
ExceptException(exc) == exc \notin {"None", "CancelledError"}

\* What a listener call may end with.
ListenerOutcomes == {"None", "Exception"}

\* A classifier that reports the records it does not know as well.
ParseReportsUnknownRecords(msg) ==
    IF msg.type = "assistant" THEN
        IF ToolBlocks(msg) # <<>> THEN
            Update("assistant",
                   <<"Using tools: ">> \o Join([k \in 1..Len(ToolNames(msg)) |-> <<ToolNames(msg)[k]>>], <<", ">>),
                   ToolNames(msg))
        ELSE Update("assistant", Join(TextParts(msg), <<"\n">>), <<>>)
    ELSE IF msg.type = "tool_result" THEN
        Update("tool_result", <<"Tool completed: ", "unknown">>, <<>>)
    ELSE IF msg.type = "result" THEN
        Update("result", <<"Execution completed">>, <<>>)
    ELSE Update(msg.type, <<>>, <<>>)

\* A classifier that prefers the text of an assistant record to its tools.
ParsePrefersText(msg) ==
    IF msg.type = "assistant" THEN
        IF TextBlocks(msg) # <<>> THEN
            Update("assistant", Join(TextParts(msg), <<"\n">>), <<>>)
        ELSE IF ToolBlocks(msg) # <<>> THEN
            Update("assistant",
                   <<"Using tools: ">> \o Join([k \in 1..Len(ToolNames(msg)) |-> <<ToolNames(msg)[k]>>], <<", ">>),
                   ToolNames(msg))
        ELSE NoUpdate
    ELSE IF msg.type = "tool_result" THEN
        Update("tool_result", <<"Tool completed: ", "unknown">>, <<>>)
    ELSE IF msg.type = "result" THEN
        Update("result", <<"Execution completed">>, <<>>)
    ELSE NoUpdate

\* _parse_stream_message, when it does not raise
_parse_stream_message(msg) ==
    IF msg.type = "assistant" THEN
        IF ToolBlocks(msg) # <<>> THEN
            Update("assistant",
                   <<"Using tools: ">> \o Join([k \in 1..Len(ToolNames(msg)) |-> <<ToolNames(msg)[k]>>], <<", ">>),
                   ToolNames(msg))
        ELSE IF TextBlocks(msg) # <<>> THEN
            Update("assistant", Join(TextParts(msg), <<"\n">>), <<>>)
        ELSE NoUpdate
    ELSE IF msg.type = "tool_result" THEN
        Update("tool_result", <<"Tool completed: ", "unknown">>, <<>>)
    ELSE IF msg.type = "result" THEN
        Update("result", <<"Execution completed">>, <<>>)
    ELSE NoUpdate

(* --------------------------- Result Aggregator -------------------------- *)
\* The locals of _handle_process_output.
NewAgg ==
    [message_buffer |-> <<>>, result_data |-> NoMsg, parsing_errors |-> 0,
     all_content |-> <<>>, all_tools |-> <<>>]

\* A buffer that, once full, drops the record that arrives.
DequeAppendDropsNewest(buf, x) ==
    IF Len(buf) < max_message_buffer THEN Append(buf, x) ELSE buf

\* deque(maxlen=max_message_buffer).append
DequeAppend(buf, x) ==
    IF Len(buf) < max_message_buffer THEN Append(buf, x)
    ELSE Append(Tail(buf), x)

\* json.loads raised, or the value is no dict with a "type"
IsMalformed(line) == line.kind \in {"badjson", "notmap"}

\* A loop head that keeps a malformed line in the history buffer.
ReceiveKeepsMalformed(agg, line) ==
    IF IsMalformed(line)
    THEN [agg EXCEPT !.parsing_errors = @ + 1, !.message_buffer = DequeAppend(@, line)]
    ELSE [agg EXCEPT !.message_buffer = DequeAppend(@, line)]

\* The head of one loop iteration: json.loads, the structure check, and
\* message_buffer.append.
Receive(agg, line) ==
    IF IsMalformed(line)
    THEN [agg EXCEPT !.parsing_errors = @ + 1]
    ELSE [agg EXCEPT !.message_buffer = DequeAppend(@, line)]

\* A loop tail that keeps the first result record instead of the last.
ExtractFirstResult(agg, msg) ==
    LET a1 == IF msg.type = "assistant"
              THEN [agg EXCEPT !.all_content = @ \o TextParts(msg),
                               !.all_tools = @ \o ToolNames(msg)]
              ELSE agg
    IN IF msg.type = "result" /\ agg.result_data = NoMsg
       THEN [a1 EXCEPT !.result_data = msg] ELSE a1

\* A loop tail that keeps the tool-use blocks of the latest assistant record
\* only.
ExtractToolsOfLastRecord(agg, msg) ==
    LET a1 == IF msg.type = "assistant"
              THEN [agg EXCEPT !.all_content = @ \o TextParts(msg),
                               !.all_tools = ToolNames(msg)]
              ELSE agg
    IN IF msg.type = "result" THEN [a1 EXCEPT !.result_data = msg] ELSE a1

\* The tail of one loop iteration: the text and tool-use blocks of an
\* assistant record, and the result record.
Extract(agg, msg) ==
    LET a1 == IF msg.type = "assistant"
              THEN [agg EXCEPT !.all_content = @ \o TextParts(msg),
                               !.all_tools = @ \o ToolNames(msg)]
              ELSE agg
    IN IF msg.type = "result" THEN [a1 EXCEPT !.result_data = msg] ELSE a1

\* ClaudeResponse
Response(content, sid, cost, turns, err, etype, tools) ==
    [content |-> content, session_id |-> sid, cost |-> cost, num_turns |-> turns,
     is_error |-> err, error_type |-> etype, tools_used |-> tools]

NoResponse == Response(<<>>, <<>>, 0, 0, FALSE, "unset", <<>>)

Placeholder == <<"No response">>

\* "\n".join(all_content) if all_content else "No response"
ContentText(all_content) ==
    IF all_content # <<>> THEN Join(all_content, <<"\n">>) ELSE Placeholder

\* The response on exit status zero.
FinalResponse(agg) ==
    Response(ContentText(agg.all_content),
             IF agg.result_data # NoMsg THEN agg.result_data.session_id ELSE <<>>,
             IF agg.result_data # NoMsg THEN agg.result_data.total_cost_usd ELSE 0,
             Len(agg.message_buffer), FALSE, "None", agg.all_tools)

\* An error response that drops the text of standard error.
ErrorResponseWithoutStderr(stderr) ==
    Response(<<"Error: ">>, <<>>, 0, 0, TRUE, "process_error", <<>>)

\* The response on a non-zero exit status.
ErrorResponse(stderr) ==
    Response(<<"Error: ">> \o Decode(stderr), <<>>, 0, 0, TRUE, "process_error", <<>>)

(* --------------------- ClaudeSDKExecutor: messages ---------------------- *)
\* A message yielded by query(): its class and, for an AssistantMessage,
\* its content blocks (ToolUseBlock, or a block with a text attribute).
SdkMsg(class, blocks) == [class |-> class, content |-> blocks]

SdkText   == SdkMsg("AssistantMessage", <<TextBlock(<<"Hello">>)>>)
SdkTool   == SdkMsg("AssistantMessage", <<ToolBlock("Read")>>)
SdkBoth   == SdkMsg("AssistantMessage", <<ToolBlock("Edit"), TextBlock(<<"Hi">>)>>)
SdkResult == SdkMsg("ResultMessage", <<>>)
SdkUser   == SdkMsg("UserMessage", <<>>)

\* The updates _handle_stream_message builds for one message, in the order
\* in which it passes them to the listener.
SdkUpdatesOf(m) ==
    IF m.class = "AssistantMessage" THEN
        (IF ToolBlocks(m) # <<>>
         THEN <<Update("tool_use",
                       <<"Using tools: ">> \o Join([k \in 1..Len(ToolNames(m)) |-> <<ToolNames(m)[k]>>], <<", ">>),
                       ToolNames(m))>>
         ELSE <<>>)
        \o
        (IF TextBlocks(m) # <<>>
         THEN <<Update("assistant", Join(TextParts(m), <<"\n">>), <<>>)>>
         ELSE <<>>)
    ELSE IF m.class = "ResultMessage" THEN
        <<Update("result", <<"Execution completed">>, <<>>)>>
    ELSE <<>>

RECURSIVE _extract_content_parts(_)
\* content_parts of _extract_content_from_messages
_extract_content_parts(messages) ==
    IF messages = <<>> THEN <<>>
    ELSE (IF Head(messages).class = "AssistantMessage"
          THEN TextParts(Head(messages)) ELSE <<>>)
         \o _extract_content_parts(Tail(messages))

\* One call of execute before it starts.
\*   pc: idle, query (awaiting the next message of query()), callback
\*       (awaiting stream_callback inside _handle_stream_message), returned,
\*       raised
NewSdk ==
    [pc |-> "idle", listener |-> FALSE, messages |-> <<>>, pending |-> <<>>,
     offered |-> <<>>, failures |-> 0, expired |-> FALSE, failure |-> "None",
     content |-> <<>>]

(* ------------------------- _read_stream_bounded ------------------------- *)
\* The line terminator b"\n" and the bytes a stream is made of.
LF == "0x0A"

\* The index of the first terminator of buffer, 0 when it holds none.
FirstLF(buffer) ==
    IF \E k \in 1..Len(buffer) : buffer[k] = LF
    THEN CHOOSE k \in 1..Len(buffer) :
             buffer[k] = LF /\ \A j \in 1..(k - 1) : buffer[j] # LF
    ELSE 0

RECURSIVE SplitLines(_)
\* while b"\n" in buffer: line, buffer = buffer.split(b"\n", 1); yield
\* line.decode("utf-8", errors="replace")
SplitLines(buffer) ==
    IF FirstLF(buffer) = 0 THEN [lines |-> <<>>, buffer |-> buffer]
    ELSE LET k == FirstLF(buffer)
             r == SplitLines(SubSeq(buffer, k + 1, Len(buffer)))
         IN [lines |-> <<Decode(SubSeq(buffer, 1, k - 1))>> \o r.lines,
             buffer |-> r.buffer]

\* A reader that starts every chunk with an empty buffer.
ReadChunkForgetsPartial(buffer, chunk) == SplitLines(chunk)

\* A reader that takes one line off the buffer per chunk (an "if" where the
\* code has a "while").
ReadChunkSplitsOnce(buffer, chunk) ==
    LET b == buffer \o chunk
        k == FirstLF(b)
    IN IF k = 0 THEN [lines |-> <<>>, buffer |-> b]
       ELSE [lines |-> <<Decode(SubSeq(b, 1, k - 1))>>,
             buffer |-> SubSeq(b, k + 1, Len(b))]

\* buffer += chunk, then the complete lines are yielded.
ReadChunk(buffer, chunk) == SplitLines(buffer \o chunk)

\* json.loads on a line the reader yielded. Of the byte strings of the
\* reader's alphabet, the line "a" stands for the serialised result record
\* Result1; every other line is not JSON.
json_loads(line) == IF line = <<"a">> THEN Result1 ELSE BadJson

\* The reader before its first read.
\*   pc: read (at stream.read), done (the loop was left)
NewReader ==
    [pc |-> "read", received |-> <<>>, buffer |-> <<>>, lines |-> <<>>,
     chunks |-> 0]

(* ------------------------------ RateLimiter ----------------------------- *)
RECURSIVE Prune(_, _)
\* while user_requests and user_requests[0] < now - self.window: popleft()
Prune(user_requests, now) ==
    IF user_requests # <<>> /\ Head(user_requests) < now - window
    THEN Prune(Tail(user_requests), now)
    ELSE user_requests

\* A limit test that admits one request too many.
UnderLimitInclusive(user_requests) == Len(user_requests) <= limit

\* len(user_requests) < self.limit
UnderLimit(user_requests) == Len(user_requests) < limit

\* The limiter before its first call.
\*   now: time.time(); requests: self.requests; log: every call of
\*   is_allowed of each caller, with its time and what it returned
NewGate ==
    [now |-> 0, requests |-> [u \in Users |-> <<>>], log |-> [u \in Users |-> <<>>]]

(* ----------------------------- _build_command -------------------------- *)
\* session_id = None
NoSession == <<"None">>

\* The truth value of a prompt or session id: neither None nor empty.
Truthy(s) == s # <<>> /\ s # NoSession

\* str(n)
str(n) == <<ToString(n)>>

\* A command that resumes the session whenever a session id is given.
BuildResumesWithoutContinue(config, prompt, session_id, continue_session) ==
    <<<<"claude">>>>
    \o (IF Truthy(session_id) THEN <<<<"--resume">>, session_id>> ELSE <<>>)
    \o (IF Truthy(prompt) THEN <<<<"-p">>, prompt>> ELSE <<<<"-p">>, <<>>>>)
    \o <<<<"--output-format">>, <<"stream-json">>, <<"--verbose">>>>
    \o <<<<"--max-turns">>, str(config.claude_max_turns)>>
    \o (IF config.claude_allowed_tools # <<>>
        THEN <<<<"--allowedTools">>, Join(config.claude_allowed_tools, <<",">>)>>
        ELSE <<>>)

\* _build_command: the argument list of the child.
_build_command(config, prompt, session_id, continue_session) ==
    <<<<"claude">>>>
    \o (IF continue_session /\ ~Truthy(prompt) THEN
            <<<<"--continue">>>>
            \o (IF Truthy(session_id) THEN <<<<"--resume">>, session_id>> ELSE <<>>)
        ELSE IF Truthy(session_id) /\ Truthy(prompt) /\ continue_session THEN
            <<<<"--resume">>, session_id, <<"-p">>, prompt>>
        ELSE IF Truthy(prompt) THEN
            <<<<"-p">>, prompt>>
        ELSE
            <<<<"-p">>, <<>>>>)
    \o <<<<"--output-format">>, <<"stream-json">>, <<"--verbose">>>>
    \o <<<<"--max-turns">>, str(config.claude_max_turns)>>
    \o (IF config.claude_allowed_tools # <<>>
        THEN <<<<"--allowedTools">>, Join(config.claude_allowed_tools, <<",">>)>>
        ELSE <<>>)

\* No command has been built.
NotBuilt ==
    [pc |-> "idle", config |-> [claude_max_turns |-> 0, claude_allowed_tools |-> <<>>],
     prompt |-> <<>>, session_id |-> NoSession, continue_session |-> FALSE,
     cmd |-> <<>>]

(* ----------------------------- handle_message --------------------------- *)
\* settings.allowed_users
allowed_users == {1}

\* SecurityValidator.is_authorized
is_authorized(user_id) == user_id \in allowed_users

\* SecurityValidator.check_rate_limit: RateLimiter.is_allowed on the limiter
\* g; what it returns and the limiter after it.
check_rate_limit(g, user_id) ==
    LET kept == Prune(g.requests[user_id], g.now)
        ok   == UnderLimit(kept)
    IN [ok |-> ok,
        gate |-> [g EXCEPT
                     !.requests[user_id] = IF ok THEN Append(kept, g.now) ELSE kept,
                     !.log[user_id] = Append(@, [t |-> g.now, ok |-> ok])]]

\* check_cost: cost tracking is not implemented.
check_cost(user_id) == 0

\* is_within_budget
is_within_budget(user_id, max_cost) == check_cost(user_id) < max_cost

\* Binding the arguments of the call raises TypeError when a keyword names
\* no parameter: the parameters of ClaudeSDKExecutor.execute besides self,
\* and the arguments handle_message passes by keyword.
BindRaises ==
    LET parameters == {"message", "user_id", "stream_callback"}
        keywords   == {"conversation_history", "stream_callback"}
    IN ~(keywords \subseteq parameters)

\* s[a:b] for 0 <= a <= b
Slice(s, a, b) ==
    LET hi == IF b < Len(s) THEN b ELSE Len(s)
    IN IF a >= hi THEN <<>> ELSE SubSeq(s, a + 1, hi)

\* [response[i:i+4096] for i in range(0, len(response), 4096)]
Chunks(response) ==
    [n \in 1..((Len(response) + MaxMessageLength - 1) \div MaxMessageLength) |->
        Slice(response, (n - 1) * MaxMessageLength, n * MaxMessageLength)]

\* The texts the handler sends for a response: its chunks when it is too
\* long, else the response as one message.
SendResponse(response) ==
    IF Len(response) > MaxMessageLength THEN Chunks(response) ELSE <<response>>

\* The texts of the handler's own messages.
Unauthorized   == <<"Unauthorized access.">>
RateLimited    == <<"Rate limit exceeded. Please wait.">>
BudgetExceeded == <<"Budget limit exceeded.">>
Processing     == <<"Processing...">>
ErrorReply(e)  == <<"Error: ">> \o Slice(e, 0, 200)

\* No value: the call of the executor gave the handler no response.
NoText == <<"None">>

\* The try block of handle_message once the gates are passed: the progress
\* message, the call of the executor with the answer the executor would
\* give, the unpacking of what it returns, and the delivery; an exception
\* is answered with an error message holding its str(e): that of the
\* TypeError of the call, or of the ValueError of unpacking a str of n
\* characters into (response, updated_history).
Served(answer) ==
    LET UnexpectedKeyword ==
            <<"ClaudeSDKExecutor.execute() got an unexpected keyword argument 'conversation_history'">>
        CannotUnpack(n) ==
            IF n > 2 THEN <<"too many values to unpack (expected 2)">>
            ELSE <<"not enough values to unpack (expected 2, got ", ToString(n), ")">>
    IN
    IF BindRaises THEN
        [response |-> NoText, failure |-> "TypeError",
         sent |-> <<Processing, ErrorReply(UnexpectedKeyword)>>]
    ELSE IF Len(answer) # 2 THEN
        [response |-> NoText, failure |-> "ValueError",
         sent |-> <<Processing, ErrorReply(CannotUnpack(Len(answer)))>>]
    ELSE
        [response |-> <<answer[1]>>, failure |-> "None",
         sent |-> <<Processing>> \o SendResponse(<<answer[1]>>)]

\* One request as the handler served it: the gates it went through, the
\* texts sent to the user, and the response the executor returned.
Request(user_id, gates, served) ==
    [user_id |-> user_id, gates |-> gates, sent |-> served.sent,
     response |-> served.response, failure |-> served.failure]

Refused(text) == [response |-> NoText, failure |-> "None", sent |-> <<text>>]

(* ---------------------------- pending_actions -------------------------- *)
\* detect_action_in_response: the response ends with a question mark and
\* names a file operation, or one of the patterns occurs in it; the last
\* pattern is a question mark at the end of the text.  Of the patterns that
\* are phrases, and of the file operations, the shortest are modelled;
\* lower() is taken on the letters the modelled responses are written in.
detect_action_in_response(response) ==
    LET response_lower ==
            [k \in 1..Len(response) |->
                CASE response[k] = "M" -> "m" [] response[k] = "I" -> "i"
                  [] OTHER -> response[k]]
        file_ops == {<<"r", "u", "n">>, <<"e", "d", "i", "t">>}
        action_keywords == {<<"m", "a", "y", " ", "i">>, <<"c", "a", "n", " ", "i">>,
                            <<"w", "r", "i", "t", "e", " ", "t", "o">>}
        inked == {k \in 1..Len(response_lower) : response_lower[k] # " "}
        asks == inked # {}
                /\ response_lower[CHOOSE k \in inked : \A j \in inked : j <= k] = "?"
    IN \/ asks /\ \E op \in file_ops : Contains(response_lower, op)
       \/ \E pattern \in action_keywords : Contains(response_lower, pattern)
       \/ asks

\* query.data.split(":") with the user id parsed: action_type,
\* int(data_parts[1]) and action_id
data_parts(data) ==
    [action_type |-> data[1],
     user_id |-> CHOOSE n \in Users : ToString(n) = data[3],
     action_id |-> data[5]]

\* The end of the try block of handle_message when the call of the
\* executor returned response: whether the response asks for a
\* confirmation, the texts sent, and, if it asks, the callback data of the
\* buttons under the last text and the entry stored, under a key numbered
\* by the size of pending_actions.  request numbers the request that
\* stored the entry.
Deliver(user_id, message_text, response, pending, request) ==
    LET needs_confirmation == detect_action_in_response(response)
        action_id == Cardinality(DOMAIN pending)
        key == <<ToString(user_id), ":", ToString(action_id)>>
        CallbackData(action_type) ==
            <<action_type, ":", ToString(user_id), ":", ToString(action_id)>>
    IN [sent |-> <<Processing>> \o SendResponse(response),
        response |-> response,
        failure |-> "None",
        offers |-> IF needs_confirmation
                   THEN <<[request |-> request,
                           proceed |-> CallbackData("proceed"),
                           cancel  |-> CallbackData("cancel"),
                           key |-> key,
                           fresh |-> key \notin DOMAIN pending]>>
                   ELSE <<>>,
        pending_actions |->
            IF needs_confirmation
            THEN [k \in DOMAIN pending \cup {key} |->
                     IF k = key
                     THEN [message |-> message_text, response |-> response,
                           request |-> request]
                     ELSE pending[k]]
            ELSE pending]

\* The handlers before the settings are loaded: no request served, no
\* action pending, no buttons offered, no click handled.
NewHandler ==
    [pc |-> "boot", max_cost |-> 0, requests |-> <<>>,
     pending_actions |-> <<>>, offers |-> <<>>, clicks |-> <<>>]

(* ------------------------------- state ---------------------------------- *)
VARIABLES
    pc,               \* where each invocation of execute_command stands
    listener,         \* stream_callback is not None
    active_processes, \* the ids (keys) of self.active_processes
    elapsed,          \* ticks since execute_command was called
    armedAt,          \* the tick at which asyncio.wait_for started; -1 before
    proc,             \* the child: alive, its pipes, the signal, the exit status
    stderrBytes,      \* what the child wrote to standard error
    pipe,             \* lines written to standard output and not yet read
    consumed,         \* lines the read loop has taken, in order
    agg,              \* the locals of _handle_process_output
    cur,              \* the record whose update the listener is handling
    offered,          \* the updates passed to the listener, in order
    listenerFailures, \* listener calls that raised
    seen,             \* what the output handling has reached: eof, exit, stderr
    expired,          \* the budget of wait_for ran out
    aliveAtExpiry,    \* the child was running when it did
    events,           \* what the timeout handler did, in order
    response,         \* the ClaudeResponse returned
    failure,          \* the exception raised
    sdk,              \* one call of ClaudeSDKExecutor.execute
    reader,           \* one run of _read_stream_bounded on a stream of bytes
    gate,             \* the RateLimiter and the clock it reads
    built,            \* one call of _build_command
    handler,          \* the settings and the requests handle_message has served
    exec              \* one call of ClaudeExecutor.execute

vars == <<pc, listener, active_processes, elapsed, armedAt, proc, stderrBytes,
          pipe, consumed, agg, cur, offered, listenerFailures, seen, expired,
          aliveAtExpiry, events, response, failure, sdk, reader, gate, built,
          handler, exec>>

cliVars == <<pc, listener, active_processes, elapsed, armedAt, proc, stderrBytes,
             pipe, consumed, agg, cur, offered, listenerFailures, seen, expired,
             aliveAtExpiry, events, response, failure>>

\* What the steps of execute_command, of the SDK executor, of the line
\* reader, of the rate limiter, of _build_command, of handle_message and
\* of ClaudeExecutor.execute leave alone.
offCli     == <<sdk, reader, gate, built, handler, exec>>
offSdk     == <<cliVars, reader, gate, built, handler, exec>>
offReader  == <<cliVars, sdk, gate, built, handler, exec>>
offGate    == <<cliVars, sdk, reader, built, handler, exec>>
offBuild   == <<cliVars, sdk, reader, gate, handler, exec>>
offHandler == <<cliVars, sdk, reader, built, exec>>
offExec    == <<cliVars, sdk, reader, gate, built, handler>>

childVars  == <<proc, stderrBytes, pipe>>
streamVars == <<consumed, agg, cur, offered, listenerFailures, seen>>
loopVars   == <<consumed, agg, cur, offered, listenerFailures>>
timeVars   == <<elapsed, armedAt>>
expiryVars == <<expired, aliveAtExpiry, events>>

\* The positions of an invocation.
\*   idle      execute_command not called yet
\*   spawning  awaiting _start_process
\*   reading   in the read loop, at stream.read
\*   callback  awaiting stream_callback(update)
\*   waiting   awaiting process.wait()
\*   stderr    awaiting process.stderr.read()
\*   twait     in the timeout handler, awaiting wait() after kill()
\*   returned, raised
Handling == {"reading", "callback", "waiting", "stderr"}
Ended    == {"returned", "raised"}

\* A child before it is spawned.
NoProc ==
    [alive |-> FALSE, stdout_open |-> FALSE, stderr_open |-> FALSE,
     signalled |-> FALSE, returncode |-> 0]

\* ClaudeExecutor.execute before it is called.
\*   idle         not called yet
\*   communicate  awaiting wait_for(process.communicate())
\*   twait        in the timeout handler, awaiting wait() after kill()
\*   returned, raised
NewExec ==
    [pc |-> "idle", proc |-> NoProc, stdout |-> <<>>, stderr |-> <<>>,
     elapsed |-> 0, events |-> <<>>, failure |-> "None", message |-> <<>>,
     value |-> NoText]

Init ==
    /\ pc = [i \in Inv |-> "idle"]
    /\ listener = [i \in Inv |-> FALSE]
    /\ active_processes = {}
    /\ elapsed = [i \in Inv |-> 0]
    /\ armedAt = [i \in Inv |-> -1]
    /\ proc = [i \in Inv |-> NoProc]
    /\ stderrBytes = [i \in Inv |-> <<>>]
    /\ pipe = [i \in Inv |-> <<>>]
    /\ consumed = [i \in Inv |-> <<>>]
    /\ agg = [i \in Inv |-> NewAgg]
    /\ cur = [i \in Inv |-> NoMsg]
    /\ offered = [i \in Inv |-> <<>>]
    /\ listenerFailures = [i \in Inv |-> 0]
    /\ seen = [i \in Inv |-> <<>>]
    /\ expired = [i \in Inv |-> FALSE]
    /\ aliveAtExpiry = [i \in Inv |-> FALSE]
    /\ events = [i \in Inv |-> <<>>]
    /\ response = [i \in Inv |-> NoResponse]
    /\ failure = [i \in Inv |-> "None"]
    /\ sdk = NewSdk
    /\ reader = NewReader
    /\ gate = NewGate
    /\ built = NotBuilt
    /\ handler = NewHandler
    /\ exec = NewExec

(* ------------------------- execute_command ------------------------------ *)
\* A cleanup that leaves the entry in the table.
CleanupLeaks(table, i) == table

\* finally: if process_id in self.active_processes: del ...
Cleanup(table, i) == table \ {i}

\* A registration under one key for every invocation.
RegisterUnderOneKey(table, i) == {i}

\* self.active_processes[process_id] = process
Register(table, i) == table \cup {i}

\* execute_command is called, with or without a listener, and awaits
\* _start_process.
Call(i, withListener) ==
    /\ pc[i] = "idle"
    /\ pc' = [pc EXCEPT ![i] = "spawning"]
    /\ listener' = [listener EXCEPT ![i] = withListener]
    /\ UNCHANGED <<active_processes, childVars, streamVars, timeVars, expiryVars,
                   response, failure>>
    /\ UNCHANGED offCli

\* _start_process returns: the child runs with both pipes open, the
\* invocation is registered and wait_for starts its timer.
SpawnOk(i) ==
    /\ pc[i] = "spawning"
    /\ elapsed[i] + Timeout <= MaxTime
    /\ pc' = [pc EXCEPT ![i] = "reading"]
    /\ proc' = [proc EXCEPT ![i] =
                   [alive |-> TRUE, stdout_open |-> TRUE, stderr_open |-> TRUE,
                    signalled |-> FALSE, returncode |-> 0]]
    /\ active_processes' = Register(active_processes, i)
    /\ armedAt' = [armedAt EXCEPT ![i] = elapsed[i]]
    /\ UNCHANGED <<listener, elapsed, stderrBytes, pipe, streamVars, expiryVars,
                   response, failure>>
    /\ UNCHANGED offCli

\* The invocation ends by raising exc: except Exception: raise, then finally.
Raise(i, exc) ==
    /\ pc' = [pc EXCEPT ![i] = "raised"]
    /\ failure' = [failure EXCEPT ![i] = exc]
    /\ active_processes' = Cleanup(active_processes, i)
    /\ UNCHANGED response

\* The invocation ends by returning r: return result, then finally.
Return(i, r) ==
    /\ pc' = [pc EXCEPT ![i] = "returned"]
    /\ response' = [response EXCEPT ![i] = r]
    /\ active_processes' = Cleanup(active_processes, i)
    /\ UNCHANGED failure

\* create_subprocess_exec raises (no such binary, no such directory).
SpawnFail(i) ==
    /\ pc[i] = "spawning"
    /\ Raise(i, "OSError")
    /\ UNCHANGED <<listener, childVars, streamVars, timeVars, expiryVars>>
    /\ UNCHANGED offCli

(* ----------------------- _handle_process_output ------------------------- *)
\* One iteration of the read loop on the next line of standard output, up
\* to the await of the listener (when there is an update and a listener) or
\* to the end of the iteration.
ReadLine(i) ==
    /\ pc[i] = "reading"
    /\ pipe[i] # <<>>
    /\ LET line == Head(pipe[i])
           exc  == LineException(line)
           a1   == Receive(agg[i], line)
       IN /\ pipe' = [pipe EXCEPT ![i] = Tail(@)]
          /\ consumed' = [consumed EXCEPT ![i] = Append(@, line)]
          /\ agg' = [agg EXCEPT ![i] =
                        IF exc = "None" /\ ~IsMalformed(line)
                           /\ ~(_parse_stream_message(line).some /\ listener[i])
                        THEN Extract(a1, line) ELSE a1]
          /\ IF exc # "None" /\ ~ExceptJSONDecodeError(exc) THEN
                 \* the exception leaves the loop, wait_for and execute_command
                 /\ Raise(i, exc)
                 /\ UNCHANGED <<cur, offered>>
             ELSE IF exc # "None" \/ IsMalformed(line) THEN
                 \* parsing_errors.append(...); continue
                 UNCHANGED <<pc, cur, offered, active_processes, response, failure>>
             ELSE IF _parse_stream_message(line).some /\ listener[i] THEN
                 \* await stream_callback(update)
                 /\ pc' = [pc EXCEPT ![i] = "callback"]
                 /\ cur' = [cur EXCEPT ![i] = line]
                 /\ offered' = [offered EXCEPT ![i] = Append(@, _parse_stream_message(line))]
                 /\ UNCHANGED <<active_processes, response, failure>>
             ELSE
                 UNCHANGED <<pc, cur, offered, active_processes, response, failure>>
    /\ UNCHANGED <<listener, proc, stderrBytes, listenerFailures, seen, timeVars, expiryVars>>
    /\ UNCHANGED offCli

\* The listener returns, or raises; an Exception is caught and logged and
\* the iteration goes on with the extraction.
CallbackDone(i, exc) ==
    /\ pc[i] = "callback"
    /\ cur' = [cur EXCEPT ![i] = NoMsg]
    /\ listenerFailures' = [listenerFailures EXCEPT ![i] = IF exc # "None" THEN @ + 1 ELSE @]
    /\ IF exc # "None" /\ ~ExceptException(exc)
       THEN /\ Raise(i, exc)
            /\ UNCHANGED agg
       ELSE /\ pc' = [pc EXCEPT ![i] = "reading"]
            /\ agg' = [agg EXCEPT ![i] = Extract(@, cur[i])]
            /\ UNCHANGED <<active_processes, response, failure>>
    /\ UNCHANGED <<listener, childVars, consumed, offered, seen,
                   timeVars, expiryVars>>
    /\ UNCHANGED offCli

\* stream.read returns b"": the loop ends, process.wait() is awaited.
ReadEOF(i) ==
    /\ pc[i] = "reading"
    /\ pipe[i] = <<>>
    /\ ~proc[i].stdout_open
    /\ pc' = [pc EXCEPT ![i] = "waiting"]
    /\ seen' = [seen EXCEPT ![i] = Append(@, "eof")]
    /\ UNCHANGED <<listener, active_processes, childVars, loopVars, timeVars,
                   expiryVars, response, failure>>
    /\ UNCHANGED offCli

\* An output handling that reads standard error whatever the exit status.
WaitReturnReadsStderrAlways(i) ==
    /\ pc[i] = "waiting"
    /\ ~proc[i].alive
    /\ pc' = [pc EXCEPT ![i] = "stderr"]
    /\ seen' = [seen EXCEPT ![i] = Append(@, "exit")]
    /\ UNCHANGED <<active_processes, response, failure>>
    /\ UNCHANGED <<listener, childVars, loopVars, timeVars, expiryVars>>
    /\ UNCHANGED offCli

\* process.wait() returns the exit status: zero gives the aggregated
\* response, non-zero goes on to read standard error.
WaitReturn(i) ==
    /\ pc[i] = "waiting"
    /\ ~proc[i].alive
    /\ IF proc[i].returncode # 0
       THEN /\ pc' = [pc EXCEPT ![i] = "stderr"]
            /\ UNCHANGED <<active_processes, response, failure>>
       ELSE Return(i, FinalResponse(agg[i]))
    /\ seen' = [seen EXCEPT ![i] = Append(@, "exit")]
    /\ UNCHANGED <<listener, childVars, loopVars, timeVars, expiryVars>>
    /\ UNCHANGED offCli

\* An error response that keeps what was aggregated from the stream.
StderrReadKeepsAggregate(i) ==
    /\ pc[i] = "stderr"
    /\ ~proc[i].stderr_open
    /\ Return(i, [ErrorResponse(stderrBytes[i]) EXCEPT
                     !.cost = FinalResponse(agg[i]).cost,
                     !.session_id = FinalResponse(agg[i]).session_id,
                     !.num_turns = FinalResponse(agg[i]).num_turns,
                     !.tools_used = FinalResponse(agg[i]).tools_used])
    /\ seen' = [seen EXCEPT ![i] = Append(@, "stderr")]
    /\ UNCHANGED <<listener, childVars, loopVars, timeVars, expiryVars>>
    /\ UNCHANGED offCli

\* process.stderr.read() returns at end of file: the error response.
StderrRead(i) ==
    /\ pc[i] = "stderr"
    /\ ~proc[i].stderr_open
    /\ Return(i, ErrorResponse(stderrBytes[i]))
    /\ seen' = [seen EXCEPT ![i] = Append(@, "stderr")]
    /\ UNCHANGED <<listener, childVars, loopVars, timeVars, expiryVars>>
    /\ UNCHANGED offCli

(* --------------------------- timeout handler ---------------------------- *)
\* The coroutine is suspended, so that the cancellation of wait_for reaches it.
Suspended(i) ==
    \/ pc[i] = "reading" /\ pipe[i] = <<>> /\ proc[i].stdout_open
    \/ pc[i] = "callback"
    \/ pc[i] = "waiting" /\ proc[i].alive
    \/ pc[i] = "stderr" /\ proc[i].stderr_open

\* The subprocess transport is closed: the child has exited and both pipes
\* are at end of file.  Process.kill() then raises ProcessLookupError.
TransportClosed(p) == ~p.alive /\ ~p.stdout_open /\ ~p.stderr_open

\* A kill() that sends nothing.
KillSendsNothing(p) == p

\* Process.kill() on an open transport: SIGKILL if the child still runs.
Kill(p) == [p EXCEPT !.signalled = p.alive]

\* wait_for raises asyncio.TimeoutError; the handler calls kill() and awaits
\* wait().
TimeoutExpire(i) ==
    /\ pc[i] \in Handling
    /\ Suspended(i)
    /\ elapsed[i] >= armedAt[i] + Timeout
    /\ expired' = [expired EXCEPT ![i] = TRUE]
    /\ aliveAtExpiry' = [aliveAtExpiry EXCEPT ![i] = proc[i].alive]
    /\ IF i \in active_processes /\ TransportClosed(proc[i])
       THEN /\ events' = [events EXCEPT ![i] = <<"expiry">>]
            /\ Raise(i, "ProcessLookupError")
            /\ UNCHANGED proc
       ELSE /\ events' = [events EXCEPT ![i] = <<"expiry", "kill">>]
            /\ proc' = [proc EXCEPT ![i] = Kill(@)]
            /\ pc' = [pc EXCEPT ![i] = "twait"]
            /\ UNCHANGED <<active_processes, response, failure>>
    /\ UNCHANGED <<listener, stderrBytes, pipe, streamVars, timeVars>>
    /\ UNCHANGED offCli

\* wait() returns in the handler: raise TimeoutError.
TimeoutRaise(i) ==
    /\ pc[i] = "twait"
    /\ ~proc[i].alive
    /\ events' = [events EXCEPT ![i] = @ \o <<"wait", "raise">>]
    /\ Raise(i, "TimeoutError")
    /\ UNCHANGED <<listener, childVars, streamVars, timeVars, expired, aliveAtExpiry>>
    /\ UNCHANGED offCli

(* ------------------------ the child and the clock ----------------------- *)
Spawned(i) == pc[i] \in Handling

\* The child writes one complete line to standard output.
ChildWrite(i, line, max) ==
    /\ Spawned(i)
    /\ proc[i].alive /\ proc[i].stdout_open
    /\ Len(consumed[i]) + Len(pipe[i]) < max
    /\ pipe' = [pipe EXCEPT ![i] = Append(@, line)]
    /\ UNCHANGED <<pc, listener, active_processes, proc, stderrBytes, streamVars,
                   timeVars, expiryVars, response, failure>>
    /\ UNCHANGED offCli

\* Standard output reaches end of file.
ChildCloseStdout(i) ==
    /\ Spawned(i)
    /\ proc[i].stdout_open
    /\ proc' = [proc EXCEPT ![i].stdout_open = FALSE]
    /\ UNCHANGED <<pc, listener, active_processes, stderrBytes, pipe, streamVars,
                   timeVars, expiryVars, response, failure>>
    /\ UNCHANGED offCli

\* Standard error reaches end of file, holding text.
ChildCloseStderr(i, text, orderly) ==
    /\ Spawned(i)
    /\ proc[i].stderr_open
    /\ orderly => ~proc[i].stdout_open
    /\ proc' = [proc EXCEPT ![i].stderr_open = FALSE]
    /\ stderrBytes' = [stderrBytes EXCEPT ![i] = text]
    /\ UNCHANGED <<pc, listener, active_processes, pipe, streamVars,
                   timeVars, expiryVars, response, failure>>
    /\ UNCHANGED offCli

\* The child exits: with status code, or by the signal it was sent.
ChildExit(i, code, orderly) ==
    /\ pc[i] \in Handling \cup {"twait"}
    /\ proc[i].alive
    /\ (orderly /\ ~proc[i].signalled) => ~proc[i].stderr_open
    /\ proc' = [proc EXCEPT ![i].alive = FALSE,
                            ![i].returncode = IF proc[i].signalled THEN -9 ELSE code]
    /\ UNCHANGED <<pc, listener, active_processes, stderrBytes, pipe, streamVars,
                   timeVars, expiryVars, response, failure>>
    /\ UNCHANGED offCli

\* Time passes for an invocation while it is suspended: awaiting the spawn,
\* or in the output handling, where the timer of wait_for fires no later
\* than its deadline.
Tick(i, slowSpawn) ==
    /\ \/ pc[i] = "spawning" /\ slowSpawn
       \/ pc[i] \in Handling /\ Suspended(i) /\ elapsed[i] < armedAt[i] + Timeout
    /\ elapsed[i] < MaxTime
    /\ elapsed' = [elapsed EXCEPT ![i] = @ + 1]
    /\ UNCHANGED <<pc, listener, active_processes, armedAt, childVars, streamVars,
                   expiryVars, response, failure>>
    /\ UNCHANGED offCli

(* ----------------------- ClaudeSDKExecutor.execute ---------------------- *)
\* execute is called and awaits the first message of query() under wait_for.
SdkExecute(withListener) ==
    /\ sdk.pc = "idle"
    /\ sdk' = [sdk EXCEPT !.pc = "query", !.listener = withListener]
    /\ UNCHANGED offSdk

\* query() yields a message: it is appended to messages and, with a
\* listener, _handle_stream_message starts on it.
SdkMessage(m) ==
    /\ sdk.pc = "query"
    /\ Len(sdk.messages) < MaxSdkMessages
    /\ LET ups == IF sdk.listener THEN SdkUpdatesOf(m) ELSE <<>>
       IN sdk' = [sdk EXCEPT !.messages = Append(@, m),
                             !.pending = ups,
                             !.offered = IF ups # <<>> THEN Append(@, Head(ups)) ELSE @,
                             !.pc = IF ups # <<>> THEN "callback" ELSE "query"]
    /\ UNCHANGED offSdk

\* The listener returns or raises inside _handle_stream_message.  An
\* Exception is caught by the except clause that ends the function, so the
\* updates of the message that were still to come are not passed.
SdkCallbackDone(exc) ==
    /\ sdk.pc = "callback"
    /\ IF exc # "None" /\ ExceptException(exc) THEN
           sdk' = [sdk EXCEPT !.failures = @ + 1, !.pending = <<>>, !.pc = "query"]
       ELSE IF exc # "None" THEN
           sdk' = [sdk EXCEPT !.failures = @ + 1, !.pending = <<>>, !.pc = "raised",
                              !.failure = exc]
       ELSE IF Len(sdk.pending) > 1 THEN
           sdk' = [sdk EXCEPT !.pending = Tail(@),
                              !.offered = Append(@, sdk.pending[2])]
       ELSE
           sdk' = [sdk EXCEPT !.pending = <<>>, !.pc = "query"]
    /\ UNCHANGED offSdk

\* query() is exhausted: execute returns the extracted content.
SdkReturn ==
    /\ sdk.pc = "query"
    /\ sdk' = [sdk EXCEPT !.pc = "returned",
                          !.content = Join(_extract_content_parts(sdk.messages), <<"\n">>)]
    /\ UNCHANGED offSdk

\* query() raises an error of the SDK: execute raises RuntimeError.
SdkQueryFails ==
    /\ sdk.pc = "query"
    /\ sdk' = [sdk EXCEPT !.pc = "raised", !.failure = "RuntimeError"]
    /\ UNCHANGED offSdk

\* wait_for runs out while execute awaits a message or the listener.
SdkTimeout ==
    /\ sdk.pc \in {"query", "callback"}
    /\ sdk' = [sdk EXCEPT !.pc = "raised", !.failure = "TimeoutError", !.expired = TRUE]
    /\ UNCHANGED offSdk

(* ------------------ _read_stream_bounded: the read loop ----------------- *)
\* stream.read returns a chunk that is not empty: it is added to the buffer
\* and every complete line is yielded.
StreamRead(chunk) ==
    /\ reader.pc = "read"
    /\ Len(reader.received) + Len(chunk) <= MaxBytes
    /\ LET r == ReadChunk(reader.buffer, chunk)
       IN reader' = [reader EXCEPT !.received = @ \o chunk,
                                   !.buffer = r.buffer,
                                   !.lines = @ \o r.lines,
                                   !.chunks = @ + 1]
    /\ UNCHANGED offReader

\* A reader that yields what is left in its buffer at end of stream.
StreamEOFYieldsRemainder ==
    /\ reader.pc = "read"
    /\ reader' = [reader EXCEPT
                     !.pc = "done",
                     !.lines = IF reader.buffer = <<>> THEN @
                               ELSE Append(@, Decode(reader.buffer))]
    /\ UNCHANGED offReader

\* stream.read returns b"": break.
StreamEOF ==
    /\ reader.pc = "read"
    /\ reader' = [reader EXCEPT !.pc = "done"]
    /\ UNCHANGED offReader

(* ------------------------- building the command ------------------------ *)
\* execute_command builds the command of its child from its arguments and
\* the configuration.
BuildCommand(config, prompt, session_id, continue_session) ==
    /\ built.pc = "idle"
    /\ built' = [pc |-> "built", config |-> config, prompt |-> prompt,
                 session_id |-> session_id, continue_session |-> continue_session,
                 cmd |-> _build_command(config, prompt, session_id, continue_session)]
    /\ UNCHANGED offBuild

(* ------------------------ RateLimiter.is_allowed ------------------------ *)
\* A limiter that records the timestamp of a rejected request too.
is_allowed_records_rejected(user_id) ==
    /\ Cardinality({c \in Users \X (1..MaxCalls) : c[2] <= Len(gate.log[c[1]])}) < MaxCalls
    /\ LET kept == Prune(gate.requests[user_id], gate.now)
           ok   == UnderLimit(kept)
       IN gate' = [gate EXCEPT
                      !.requests[user_id] = Append(kept, gate.now),
                      !.log[user_id] = Append(@, [t |-> gate.now, ok |-> ok])]
    /\ UNCHANGED offGate

\* is_allowed(user_id): old timestamps are dropped, then the request is
\* admitted and recorded, or rejected.
is_allowed(user_id) ==
    /\ Cardinality({c \in Users \X (1..MaxCalls) : c[2] <= Len(gate.log[c[1]])}) < MaxCalls
    /\ LET kept == Prune(gate.requests[user_id], gate.now)
           ok   == UnderLimit(kept)
       IN gate' = [gate EXCEPT
                      !.requests[user_id] = IF ok THEN Append(kept, gate.now) ELSE kept,
                      !.log[user_id] = Append(@, [t |-> gate.now, ok |-> ok])]
    /\ UNCHANGED offGate

\* time.time() advances.
ClockAdvance ==
    /\ gate.now < MaxClock
    /\ gate' = [gate EXCEPT !.now = @ + 1]
    /\ UNCHANGED offGate

(* ----------------------------- handle_message --------------------------- *)
\* settings = Settings(): the configuration is read once, at import.
LoadSettings(max_cost) ==
    /\ handler.pc = "boot"
    /\ handler' = [handler EXCEPT !.pc = "serving", !.max_cost = max_cost]
    /\ UNCHANGED gate
    /\ UNCHANGED offHandler

\* A handler that consults the rate limiter before the authorization.
handle_message_rate_first(user_id, answer) ==
    /\ handler.pc = "serving"
    /\ Len(handler.requests) < MaxRequests
    /\ LET rate == check_rate_limit(gate, user_id)
       IN /\ gate' = rate.gate
          /\ handler' = [handler EXCEPT !.requests = Append(@,
                 IF ~rate.ok THEN
                     Request(user_id, <<"rate limit">>, Refused(RateLimited))
                 ELSE IF ~is_authorized(user_id) THEN
                     Request(user_id, <<"rate limit", "authorization">>, Refused(Unauthorized))
                 ELSE IF ~is_within_budget(user_id, handler.max_cost) THEN
                     Request(user_id, <<"rate limit", "authorization", "budget">>,
                             Refused(BudgetExceeded))
                 ELSE
                     Request(user_id, <<"rate limit", "authorization", "budget", "executor">>,
                             Served(answer)))]
    /\ UNCHANGED offHandler

\* handle_message for a message of user_id, from the gates to the last
\* reply.  Updates are handled one at a time.
handle_message(user_id, answer) ==
    /\ handler.pc = "serving"
    /\ Len(handler.requests) < MaxRequests
    /\ IF ~is_authorized(user_id) THEN
           /\ handler' = [handler EXCEPT !.requests = Append(@,
                  Request(user_id, <<"authorization">>, Refused(Unauthorized)))]
           /\ UNCHANGED gate
       ELSE
           LET rate == check_rate_limit(gate, user_id)
           IN /\ gate' = rate.gate
              /\ handler' = [handler EXCEPT !.requests = Append(@,
                     IF ~rate.ok THEN
                         Request(user_id, <<"authorization", "rate limit">>,
                                 Refused(RateLimited))
                     ELSE IF ~is_within_budget(user_id, handler.max_cost) THEN
                         Request(user_id, <<"authorization", "rate limit", "budget">>,
                                 Refused(BudgetExceeded))
                     ELSE
                         Request(user_id, <<"authorization", "rate limit", "budget", "executor">>,
                                 Served(answer)))]
    /\ UNCHANGED offHandler

\* handle_message wired to an executor whose execute takes the keywords of
\* the call at lines 174-179 and returns a response and a history: the
\* gates, then the delivery of the response answer and the storing of the
\* action it proposes.
handle_message_answered(user_id, answer) ==
    /\ handler.pc = "serving"
    /\ Len(handler.requests) < MaxRequests
    /\ IF ~is_authorized(user_id) THEN
           /\ handler' = [handler EXCEPT !.requests = Append(@,
                  Request(user_id, <<"authorization">>, Refused(Unauthorized)))]
           /\ UNCHANGED gate
       ELSE
           LET rate == check_rate_limit(gate, user_id)
               done == Deliver(user_id, <<"h", "i">>, answer, handler.pending_actions,
                               Len(handler.requests) + 1)
           IN /\ gate' = rate.gate
              /\ handler' =
                     IF ~rate.ok THEN
                         [handler EXCEPT !.requests = Append(@,
                             Request(user_id, <<"authorization", "rate limit">>,
                                     Refused(RateLimited)))]
                     ELSE IF ~is_within_budget(user_id, handler.max_cost) THEN
                         [handler EXCEPT !.requests = Append(@,
                             Request(user_id, <<"authorization", "rate limit", "budget">>,
                                     Refused(BudgetExceeded)))]
                     ELSE
                         [handler EXCEPT
                             !.requests = Append(@,
                                 Request(user_id,
                                         <<"authorization", "rate limit", "budget", "executor">>,
                                         done)),
                             !.pending_actions = done.pending_actions,
                             !.offers = @ \o done.offers]
    /\ UNCHANGED offHandler

(* ------------------------- handle_callback_query ------------------------ *)
\* handle_callback_query for a click of sender on a button of the o-th
\* offer, wired to the same executor, which answers a confirmed action
\* with the response answer: the owner check, the lookup, the removal, and for a
\* proceed click the rate limit, the budget and the execution.
handle_callback_query(sender, o, action_type, answer) ==
    /\ handler.pc = "serving"
    /\ Len(handler.clicks) < MaxClicks
    /\ o \in 1..Len(handler.offers)
    /\ LET data == IF action_type = "proceed" THEN handler.offers[o].proceed
                   ELSE handler.offers[o].cancel
           parts == data_parts(data)
           user_id == parts.user_id
           action_key == <<ToString(user_id), ":", parts.action_id>>
           Click(outcome, request, texts) ==
               [offer |-> o, sender |-> sender, action_type |-> parts.action_type,
                outcome |-> outcome, consumed |-> request, sent |-> texts]
       IN IF user_id # sender THEN
              /\ handler' = [handler EXCEPT !.clicks = Append(@,
                     Click("not owner", 0,
                           <<<<"You are not authorized to confirm this action.">>>>))]
              /\ UNCHANGED gate
          ELSE IF action_key \notin DOMAIN handler.pending_actions THEN
              /\ handler' = [handler EXCEPT !.clicks = Append(@,
                     Click("expired", 0,
                           <<<<"This action has expired or was already processed.">>>>))]
              /\ UNCHANGED gate
          ELSE
              LET pending_action == handler.pending_actions[action_key]
                  rest == [k \in DOMAIN handler.pending_actions \ {action_key} |->
                              handler.pending_actions[k]]
              IN IF parts.action_type = "cancel" THEN
                     /\ handler' = [handler EXCEPT
                            !.pending_actions = rest,
                            !.clicks = Append(@,
                                Click("cancelled", pending_action.request,
                                      <<pending_action.response
                                        \o <<"Action cancelled by user.">>>>))]
                     /\ UNCHANGED gate
                 ELSE
                     LET rate == check_rate_limit(gate, user_id)
                         proceeding == pending_action.response
                                       \o <<"Proceeding with action...">>
                     IN /\ gate' = rate.gate
                        /\ handler' = [handler EXCEPT
                               !.pending_actions = rest,
                               !.clicks = Append(@,
                                   IF ~rate.ok THEN
                                       Click("rate limited", pending_action.request,
                                             <<proceeding, RateLimited>>)
                                   ELSE IF ~is_within_budget(user_id, handler.max_cost) THEN
                                       Click("over budget", pending_action.request,
                                             <<proceeding, BudgetExceeded>>)
                                   ELSE
                                       Click("executed", pending_action.request,
                                             <<proceeding, <<"Executing action...">>>>
                                             \o SendResponse(answer)))]
    /\ UNCHANGED offHandler

(* ------------------------ ClaudeExecutor.execute ------------------------ *)
\* execute is called and create_subprocess_exec is awaited: the child runs
\* with both pipes open, or the spawn raises and the exception is raised
\* again by the outer handler.
ExecCall(spawned) ==
    /\ exec.pc = "idle"
    /\ exec' = IF spawned
               THEN [exec EXCEPT !.pc = "communicate",
                                 !.proc = [alive |-> TRUE, stdout_open |-> TRUE,
                                           stderr_open |-> TRUE, signalled |-> FALSE,
                                           returncode |-> 0]]
               ELSE [exec EXCEPT !.pc = "raised", !.failure = "OSError"]
    /\ UNCHANGED offExec

\* A pipe of the child reaches end of file, text being all that was
\* written to it.
ExecChildClose(stream, text) ==
    /\ exec.pc \in {"communicate", "twait"}
    /\ IF stream = "stdout"
       THEN /\ exec.proc.stdout_open
            /\ exec' = [exec EXCEPT !.proc.stdout_open = FALSE, !.stdout = text]
       ELSE /\ exec.proc.stderr_open
            /\ exec' = [exec EXCEPT !.proc.stderr_open = FALSE, !.stderr = text]
    /\ UNCHANGED offExec

\* The child exits, with the status code, or with that of SIGKILL when it
\* was killed.
ExecChildExit(code) ==
    /\ exec.pc \in {"communicate", "twait"}
    /\ exec.proc.alive
    /\ exec' = [exec EXCEPT !.proc.alive = FALSE,
                            !.proc.returncode = IF exec.proc.signalled THEN -9 ELSE code]
    /\ UNCHANGED offExec

\* Time passes while communicate() is awaited.
ExecTick ==
    /\ exec.pc = "communicate"
    /\ exec.elapsed < MaxTime
    /\ exec' = [exec EXCEPT !.elapsed = @ + 1]
    /\ UNCHANGED offExec

\* An executor that hands the output back whatever the exit status.
ExecCommunicatedIgnoresStatus ==
    /\ exec.pc = "communicate"
    /\ TransportClosed(exec.proc)
    /\ exec' = [exec EXCEPT !.pc = "returned", !.value = Decode(exec.stdout)]
    /\ UNCHANGED offExec

\* communicate() returns, both pipes at end of file and the child gone:
\* RuntimeError with the decoded standard error on a non-zero status, else
\* the decoded standard output is returned.
ExecCommunicated ==
    /\ exec.pc = "communicate"
    /\ TransportClosed(exec.proc)
    /\ exec' = IF exec.proc.returncode # 0
               THEN [exec EXCEPT !.pc = "raised", !.failure = "RuntimeError",
                                 !.message = <<"Claude command failed: ">>
                                             \o Decode(exec.stderr)]
               ELSE [exec EXCEPT !.pc = "returned", !.value = Decode(exec.stdout)]
    /\ UNCHANGED offExec

\* wait_for raises asyncio.TimeoutError while communicate() is pending: the
\* handler calls kill() and awaits wait().
ExecTimeout ==
    /\ exec.pc = "communicate"
    /\ ~TransportClosed(exec.proc)
    /\ exec.elapsed >= Timeout
    /\ exec' = [exec EXCEPT !.pc = "twait", !.proc = Kill(@),
                            !.events = Append(@, "kill")]
    /\ UNCHANGED offExec

\* wait() returns in the handler: raise TimeoutError.
ExecTimeoutRaise ==
    /\ exec.pc = "twait"
    /\ ~exec.proc.alive
    /\ exec' = [exec EXCEPT !.pc = "raised", !.failure = "TimeoutError",
                            !.events = Append(@, "wait"),
                            !.message = <<"Claude command timed out after ",
                                          ToString(Timeout), " seconds">>]
    /\ UNCHANGED offExec

(* --------------------------- specifications ----------------------------- *)
\* The steps of invocation i in the environment env.
Step(i, env) ==
    \/ \E b \in env.listeners : Call(i, b)
    \/ SpawnOk(i)
    \/ SpawnFail(i)
    \/ ReadLine(i)
    \/ \E e \in ListenerOutcomes : CallbackDone(i, e)
    \/ ReadEOF(i)
    \/ WaitReturn(i)
    \/ StderrRead(i)
    \/ TimeoutExpire(i)
    \/ TimeoutRaise(i)
    \/ \E l \in env.lines : ChildWrite(i, l, env.max)
    \/ ChildCloseStdout(i)
    \/ \E t \in env.stderr : ChildCloseStderr(i, t, env.orderly)
    \/ \E c \in {0, 1} : ChildExit(i, c, env.orderly)
    \/ Tick(i, env.slowSpawn)

\* Concurrent invocations on one manager.
Next == \E i \in Inv : Step(i, ConcEnv)

Spec == Init /\ [][Next]_vars

\* One invocation, its child writing any of the modelled records.
NextStream == Step(1, StreamEnv)

StreamSpec == Init /\ [][NextStream]_vars

\* One invocation whose child writes more records than the history buffer
\* holds.
NextBuffer ==
    Step(1,
        [listeners |-> {TRUE}, lines |-> {AsstHello, AsstTool, BadJson},
         max |-> MaxLinesBuf, stderr |-> {<<>>}, slowSpawn |-> FALSE,
         orderly |-> FALSE])

BufferSpec == Init /\ [][NextBuffer]_vars

\* One invocation under the scheduling of the event loop: a coroutine that
\* can run does run, the spawn completes, time passes while the invocation
\* is suspended, the timer of wait_for fires, and a child that was sent
\* SIGKILL exits.  Nothing is assumed of a child that was not killed, nor
\* of the listener: either may hang.
NextLive == Step(1, LiveEnv)

Fairness(i) ==
    /\ WF_vars(SpawnOk(i) \/ SpawnFail(i))
    /\ WF_vars(ReadLine(i))
    /\ WF_vars(ReadEOF(i))
    /\ WF_vars(WaitReturn(i))
    /\ WF_vars(StderrRead(i))
    /\ WF_vars(Tick(i, LiveEnv.slowSpawn))
    /\ WF_vars(TimeoutExpire(i))
    /\ WF_vars(TimeoutRaise(i))
    /\ WF_vars(proc[i].signalled /\ ChildExit(i, 0, LiveEnv.orderly))

LiveSpec == Init /\ [][NextLive]_vars /\ Fairness(1)

\* One invocation whose child writes records of every shape.
NextShape == Step(1, ShapeEnv)

ShapeSpec == Init /\ [][NextShape]_vars

\* One invocation whose child writes malformed lines, text, tool calls and
\* result records, heard by a listener or by none, with any text on
\* standard error.
NextCore ==
    Step(1,
        [listeners |-> BOOLEAN,
         lines |-> {BadJson, NotMapping, Result1, Result2, AsstHello, AsstTool},
         max |-> MaxLines,
         stderr |-> StderrTexts, slowSpawn |-> FALSE, orderly |-> FALSE])

CoreSpec == Init /\ [][NextCore]_vars

\* One invocation whose child answers with text, with text and a tool
\* call, and with a closing result record, heard by a listener or by none.
NextAnswer ==
    Step(1,
        [listeners |-> BOOLEAN, lines |-> {AsstHello, AsstBoth, Result1},
         max |-> MaxLines,
         stderr |-> {<<"disk full">>}, slowSpawn |-> FALSE, orderly |-> FALSE])

AnswerSpec == Init /\ [][NextAnswer]_vars

\* One command built from any arguments under any configuration.  A prompt
\* or a session id may read like a flag.
NextBuild ==
    \E turns \in {1, 10},
       tools \in {<<>>, <<<<"Read">>>>, <<<<"Read">>, <<"Edit">>>>},
       prompt \in {<<>>, <<"hi">>, <<"--resume">>},
       session_id \in {NoSession, <<>>, <<"s1">>, <<"-p">>},
       continue_session \in BOOLEAN :
        BuildCommand([claude_max_turns |-> turns, claude_allowed_tools |-> tools],
                     prompt, session_id, continue_session)

BuildSpec == Init /\ [][NextBuild]_vars

\* The bot serving the messages of its users as time passes.
NextHandler ==
    \/ \E max_cost \in {0, 10} : LoadSettings(max_cost)
    \/ \E u \in Users, answer \in {<<"o", "k">>, <<"a", "b", "c", "d">>} :
           handle_message(u, answer)
    \/ ClockAdvance

HandlerSpec == Init /\ [][NextHandler]_vars

\* The bot wired to an executor that answers the calls of its handlers:
\* messages are answered with a proposal to confirm, short or long, and
\* the buttons of the proposals are clicked, by their owner or by another
\* user.
NextPending ==
    \/ \E max_cost \in {0, 10} : LoadSettings(max_cost)
    \/ \E u \in Users, r \in {<<"o", "k", "?">>, <<"M", "a", "y", " ", "I">>} :
           handle_message_answered(u, r)
    \/ \E u \in Users, o \in 1..MaxRequests, t \in {"proceed", "cancel"},
          r \in {<<"a", "b", "c", "d">>} :
           handle_callback_query(u, o, t, r)
    \/ ClockAdvance

PendingSpec == Init /\ [][NextPending]_vars

\* One call of the executor that does not stream: the child may write
\* anything to either pipe, close them in any order, exit with any
\* status, or hang.
NextExec ==
    \/ \E spawned \in BOOLEAN : ExecCall(spawned)
    \/ \E text \in {<<>>, <<"ok">>, <<"o", InvalidByte>>} : ExecChildClose("stdout", text)
    \/ \E text \in StderrTexts : ExecChildClose("stderr", text)
    \/ \E code \in {0, 1} : ExecChildExit(code)
    \/ ExecTick
    \/ ExecCommunicated
    \/ ExecTimeout
    \/ ExecTimeoutRaise

ExecSpec == Init /\ [][NextExec]_vars

\* One call of the SDK executor.
NextSdk ==
    \/ \E b \in BOOLEAN : SdkExecute(b)
    \/ \E m \in {SdkText, SdkTool, SdkBoth, SdkResult, SdkUser} : SdkMessage(m)
    \/ \E e \in ListenerOutcomes : SdkCallbackDone(e)
    \/ SdkReturn
    \/ SdkQueryFails
    \/ SdkTimeout

SdkSpec == Init /\ [][NextSdk]_vars

\* One run of the line reader on a stream that arrives in any chunks.
NextReader ==
    \/ \E chunk \in UNION {[1..n -> {"a", LF, LeadByte, ContByte}] :
                                n \in 1..streaming_buffer_size} :
           StreamRead(chunk)
    \/ StreamEOF

ReaderSpec == Init /\ [][NextReader]_vars

\* The rate limiter, called by its callers as time passes.
NextGate ==
    \/ \E u \in Users : is_allowed(u)
    \/ ClockAdvance

GateSpec == Init /\ [][NextGate]_vars

(* ------------------------------- claims --------------------------------- *)
InFlight == Handling \cup {"twait"}

\* C1: under any interleaving of concurrent calls, an invocation's id is in
\* active_processes exactly from the success of its spawn until the call
\* returns or raises; after the call has ended by any route the id is
\* absent, and the table is empty when no invocation is in flight.
C1_TableHoldsExactlyTheInFlight ==
    \A i \in Inv : (i \in active_processes) <=> (pc[i] \in InFlight)

\* One call has ended by the timeout route and is out of the table while
\* the other is still in flight and in it.
C1_Witness ==
    /\ pc[1] = "raised" /\ failure[1] = "TimeoutError" /\ 1 \notin active_processes
    /\ pc[2] \in Handling /\ 2 \in active_processes

\* C2: a child that is still running when the budget expires is always
\* killed (the signal is sent, and the child is gone when the call ends),
\* and the id is absent from the table once the call has ended.
C2_RunningChildKilledOnTimeout ==
    \A i \in Inv :
        (expired[i] /\ aliveAtExpiry[i]) =>
            /\ proc[i].signalled
            /\ pc[i] \in Ended => (~proc[i].alive /\ i \notin active_processes)

\* A call whose child was running at expiry has ended.
C2_Witness ==
    \E i \in Inv : expired[i] /\ aliveAtExpiry[i] /\ pc[i] = "raised"

\* C3: whenever the budget expires before the output handling has finished,
\* the call ends by raising TimeoutError and nothing else, after kill() was
\* issued and wait() awaited, in the order expiry, kill, wait, raise.
C3_TimeoutAlwaysSurfacesAsTimeoutError ==
    \A i \in Inv :
        (expired[i] /\ pc[i] \in Ended) =>
            /\ pc[i] = "raised"
            /\ failure[i] = "TimeoutError"
            /\ events[i] = <<"expiry", "kill", "wait", "raise">>

\* C4: the budget bounds spawn + stream + wait together: once more than the
\* budget has passed since execute_command was called, the invocation is no
\* longer spawning, streaming or waiting (it is in the timeout handler or
\* has ended).
C4_BudgetBoundsSpawnStreamWait ==
    \A i \in Inv :
        elapsed[i] > Timeout => pc[i] \notin ({"spawning"} \cup Handling)

\* The lines of a sequence that are structurally valid records.
Valid(lines) == SelectSeq(lines, LAMBDA l : ~IsMalformed(l))

\* The lines of a sequence that are result records.
Results(lines) == SelectSeq(Valid(lines), LAMBDA l : l.type = "result")

\* No consumed record made the classifier raise.
WellShaped(i) == \A k \in 1..Len(consumed[i]) : LineException(consumed[i][k]) # "TypeError"

\* The invocation ended and its budget never expired.
EndedInTime(i) == pc[i] \in Ended /\ ~expired[i]

\* C5: when the child exits non-zero after its output was consumed (and the
\* budget has not expired), execute_command returns, not raises, a response
\* with is_error, error_type "process_error" and a content that contains
\* the decoded text of standard error.
C5_NonZeroExitIsReportedNotRaised ==
    \A i \in Inv :
        (EndedInTime(i) /\ seen[i] # <<>> /\ seen[i][Len(seen[i])] # "eof"
                        /\ proc[i].returncode # 0) =>
            /\ pc[i] = "returned"
            /\ response[i].is_error
            /\ response[i].error_type = "process_error"
            /\ Contains(response[i].content, Decode(stderrBytes[i]))

\* A non-zero exit was reported with a standard error that held an invalid
\* byte after some text.
C5_Witness ==
    \E i \in Inv :
        /\ pc[i] = "returned" /\ proc[i].returncode = 1
        /\ stderrBytes[i] = <<"disk", InvalidByte>>
        /\ response[i].content = <<"Error: ", "disk", ReplacementChar>>

\* C6: of malformed record, non-zero exit, timeout and listener failure only
\* the timeout makes execute_command raise: an invocation that was spawned,
\* met no timeout and read only well-shaped or malformed lines returns a
\* response, whatever malformed lines, listener failures and exit status it
\* met.
C6_OnlyTimeoutRaises ==
    \A i \in Inv :
        (EndedInTime(i) /\ armedAt[i] >= 0 /\ WellShaped(i)) =>
            /\ pc[i] = "returned"
            /\ failure[i] = "None"

\* A response was returned after a malformed line, a listener failure and a
\* non-zero exit.
C6_Witness ==
    \E i \in Inv :
        /\ pc[i] = "returned"
        /\ agg[i].parsing_errors > 0
        /\ listenerFailures[i] > 0
        /\ response[i].is_error

RECURSIVE Aggregate(_, _)
\* The locals of _handle_process_output after the loop has run on lines.
Aggregate(a, lines) ==
    IF lines = <<>> THEN a
    ELSE Aggregate(Extract(Receive(a, Head(lines)), Head(lines)), Tail(lines))

\* The updates the classifier gives for lines, in order.
Updates(lines) ==
    LET upd == SelectSeq(lines, LAMBDA l : _parse_stream_message(l).some)
    IN [k \in 1..Len(upd) |-> _parse_stream_message(upd[k])]

\* The aggregation without the diagnostics.
Kept(a) == [a EXCEPT !.parsing_errors = 0]

\* No iteration of the read loop is under way or was cut short: the
\* invocation stands between two iterations, or after the loop.
BetweenLines(i) == cur[i] = NoMsg /\ WellShaped(i)

\* C7: a malformed line never aborts the stream: it adds one diagnostic, no
\* update and nothing to the history buffer, the loop goes on, and all that
\* is aggregated and offered is what the same lines without the malformed
\* ones give.
C7_MalformedLineIsSkipped ==
    \A i \in Inv :
        /\ failure[i] # "JSONDecodeError"
        /\ BetweenLines(i) =>
              /\ Kept(agg[i]) = Kept(Aggregate(NewAgg, Valid(consumed[i])))
              /\ agg[i].parsing_errors = Len(consumed[i]) - Len(Valid(consumed[i]))
        /\ (listener[i] /\ WellShaped(i)) => offered[i] = Updates(Valid(consumed[i]))

\* A malformed first line was followed by a text record that is in the
\* response.
C7_Witness ==
    \E i \in Inv :
        /\ pc[i] = "returned"
        /\ listener[i]
        /\ consumed[i] = <<BadJson, AsstHello>>
        /\ response[i].content = <<"Hello">>
        /\ response[i].num_turns = 1
        /\ Len(offered[i]) = 1

RECURSIVE SdkUpdates(_)
\* The updates of the SDK executor for messages, in order.
SdkUpdates(messages) ==
    IF messages = <<>> THEN <<>>
    ELSE SdkUpdatesOf(Head(messages)) \o SdkUpdates(Tail(messages))

\* The part of C8 on the read loop of ClaudeProcessManager: the failure of
\* the listener does not leave execute_command, every update of the lines
\* read is offered, and the invocation runs to the exit of the child and
\* returns a response.
C8_ReadLoopSurvivesListener ==
    \A i \in Inv :
        /\ failure[i] # "Exception"
        /\ (listener[i] /\ WellShaped(i)) => offered[i] = Updates(Valid(consumed[i]))
        /\ (listenerFailures[i] > 0 /\ EndedInTime(i) /\ WellShaped(i)) =>
              /\ pc[i] = "returned"
              /\ \E k \in 1..Len(seen[i]) : seen[i][k] = "exit"

\* The part of C8 on the message loop of ClaudeSDKExecutor: the failure of
\* the listener does not leave execute, and between two messages every
\* update of the messages received has been offered.
C8_MessageLoopSurvivesListener ==
    /\ sdk.failure # "Exception"
    /\ (sdk.listener /\ sdk.pc \in {"query", "returned"}) =>
           sdk.offered = SdkUpdates(sdk.messages)

\* C8: a listener that fails on any of the updates never aborts the read
\* loop: its failure is caught, every later update is still offered to the
\* listener, and the invocation runs on and returns a response.
C8_ListenerFailureIsSuppressed ==
    C8_ReadLoopSurvivesListener /\ C8_MessageLoopSurvivesListener

\* C9: on a zero exit the cost and the session id of the response are those
\* of the last result record read, whatever earlier ones said; with no
\* result record the cost is 0, the session id empty and the response not
\* error-flagged.
C9_LastResultWins ==
    \A i \in Inv :
        (pc[i] = "returned" /\ proc[i].returncode = 0) =>
            LET rs == Results(consumed[i])
            IN /\ ~response[i].is_error
               /\ rs = <<>> => (response[i].cost = 0 /\ response[i].session_id = <<>>)
               /\ rs # <<>> =>
                     /\ response[i].cost = rs[Len(rs)].total_cost_usd
                     /\ response[i].session_id = rs[Len(rs)].session_id

\* Two result records were read and the response carries the second.
C9_Witness ==
    \E i \in Inv :
        /\ pc[i] = "returned" /\ proc[i].returncode = 0
        /\ consumed[i] = <<Result1, Result2>>
        /\ response[i].cost = 2 /\ response[i].session_id = <<"s2">>

\* C10: the content of a response returned on zero exit is never the empty
\* string.
C10_ContentNeverEmpty ==
    \A i \in Inv :
        (pc[i] = "returned" /\ proc[i].returncode = 0) => response[i].content # <<>>

RECURSIVE Blocks(_)
\* The content blocks of the assistant records among lines, in arrival
\* order.
Blocks(lines) ==
    IF lines = <<>> THEN <<>>
    ELSE (IF Head(lines).kind = "msg" /\ Head(lines).type = "assistant"
          THEN Head(lines).content ELSE <<>>)
         \o Blocks(Tail(lines))

\* The texts of the text blocks, and the names of the tool-use blocks, of
\* a sequence of blocks.
TextsOf(blocks) ==
    LET tb == SelectSeq(blocks, LAMBDA b : b.isdict /\ b.type = "text")
    IN [k \in 1..Len(tb) |-> tb[k].text]
ToolsOf(blocks) ==
    LET ub == SelectSeq(blocks, LAMBDA b : b.isdict /\ b.type = "tool_use")
    IN [k \in 1..Len(ub) |-> ub[k].name]

LastN(seq, n) ==
    IF Len(seq) <= n THEN seq ELSE SubSeq(seq, Len(seq) - n + 1, Len(seq))

\* C12: the history buffer never holds more than its capacity; it holds the
\* latest structurally valid records, the oldest being the one removed when
\* a record arrives at capacity; and num_turns is the smaller of the number
\* of structurally valid records seen and the capacity.
C12_HistoryBufferIsBounded ==
    \A i \in Inv :
        LET valid == Valid(consumed[i])
        IN /\ Len(agg[i].message_buffer) <= max_message_buffer
           /\ agg[i].message_buffer = LastN(valid, max_message_buffer)
           /\ (pc[i] = "returned" /\ proc[i].returncode = 0) =>
                  response[i].num_turns =
                      (IF Len(valid) < max_message_buffer THEN Len(valid)
                       ELSE max_message_buffer)

\* More valid records than the capacity were read and the first was
\* removed.
C12_Witness ==
    \E i \in Inv :
        /\ pc[i] = "returned" /\ proc[i].returncode = 0
        /\ Len(Valid(consumed[i])) > max_message_buffer
        /\ consumed[i][1] = AsstHello
        /\ \A k \in 1..Len(agg[i].message_buffer) : agg[i].message_buffer[k] = AsstTool
        /\ response[i].num_turns = max_message_buffer

\* C13: however the bytes of a stream are split into chunks, the lines
\* yielded are those yielded when the same bytes arrive as one chunk.
C13_ChunkingInvariance ==
    reader.lines = ReadChunk(<<>>, reader.received).lines

\* A line holding a two-byte character arrived in three chunks, split next
\* to the terminator and inside the character, and was yielded whole.
C13_Witness ==
    /\ reader.received = <<LeadByte, ContByte, LF>>
    /\ reader.chunks = 3
    /\ reader.lines = <<<<TwoByteChar>>>>

\* The calls of a caller that were admitted at a time in a..b.
AdmittedIn(u, a, b) ==
    {k \in 1..Len(gate.log[u]) :
        gate.log[u][k].ok /\ a <= gate.log[u][k].t /\ gate.log[u][k].t <= b}

\* C14: for each caller, the requests admitted within any span of length
\* window never exceed limit, the stored timestamps never exceed limit, and
\* of limit + 1 first requests made within window the first limit are
\* admitted and the last is rejected.
C14_SlidingWindow ==
    \A u \in Users :
        /\ Len(gate.requests[u]) <= limit
        /\ \A a \in 0..MaxClock : Cardinality(AdmittedIn(u, a, a + window)) <= limit
        /\ (Len(gate.log[u]) > limit
              /\ gate.log[u][limit + 1].t - gate.log[u][1].t <= window) =>
              /\ \A k \in 1..limit : gate.log[u][k].ok
              /\ ~gate.log[u][limit + 1].ok

\* A caller made limit + 1 requests at different times within window and
\* the last was rejected, while another caller was admitted at that time.
C14_Witness ==
    /\ Len(gate.log[1]) = limit + 1
    /\ gate.log[1][1].t < gate.log[1][limit + 1].t
    /\ gate.log[1][limit + 1].t - gate.log[1][1].t = window
    /\ ~gate.log[1][limit + 1].ok
    /\ Len(gate.log[2]) = 1 /\ gate.log[2][1].ok
    /\ gate.log[2][1].t = gate.log[1][limit + 1].t

\* The lines on which the classifier was called and returned.
Classified(lines) ==
    SelectSeq(lines, LAMBDA l : l.kind = "msg" /\ LineException(l) = "None")

\* The response of an invocation that read lines from its child, whose
\* exit status was code and whose standard error held stderr.
ResponseOf(lines, code, stderr) ==
    IF code # 0 THEN ErrorResponse(stderr)
    ELSE FinalResponse(Aggregate(NewAgg, lines))

\* C15: concurrent invocations are independent: the response of each is
\* that of its own child's output and exit status, its listener gets the
\* updates of its own child's records only, a child is killed by the
\* timeout of its own invocation only, and the entry of an invocation in
\* flight is never removed by another one.
C15_ConcurrentInvocationsAreIndependent ==
    \A i \in Inv :
        /\ pc[i] = "returned" =>
               response[i] = ResponseOf(consumed[i], proc[i].returncode, stderrBytes[i])
        /\ offered[i] = Updates(Classified(consumed[i]))
        /\ proc[i].signalled => expired[i]
        /\ pc[i] \in InFlight => i \in active_processes

\* One invocation ran out of time and its child was killed while the other
\* was in flight; the other then returned the text of its own child.
C15_Witness ==
    /\ pc[1] = "raised" /\ failure[1] = "TimeoutError" /\ proc[1].signalled
    /\ consumed[1] = <<>>
    /\ pc[2] = "returned" /\ ~proc[2].signalled /\ proc[2].returncode = 0
    /\ response[2].content = <<"Hello">>
    /\ Len(offered[2]) = 1

\* C16: what an invocation retains while streaming is bounded by a
\* constant that does not depend on the number of lines: none of the
\* history buffer, the collected texts, the collected tool calls and the
\* parse diagnostics outgrows the capacity of the buffer.
C16_RetainedItemsAreBounded ==
    \A i \in Inv :
        /\ Len(agg[i].message_buffer) <= max_message_buffer
        /\ Len(agg[i].all_content) <= max_message_buffer
        /\ Len(agg[i].all_tools) <= max_message_buffer
        /\ agg[i].parsing_errors <= max_message_buffer

\* The part of C17 on termination: an invocation that was called
\* eventually returns or raises, whatever its child does.
C17_Terminates ==
    \A i \in Inv : (pc[i] # "idle") ~> (pc[i] \in Ended)

\* The part of C17 on the timeout: once the budget has expired, control
\* returns to the caller with the timeout error.
C17_ExpiryEndsInTimeoutError ==
    \A i \in Inv : expired[i] ~> (pc[i] = "raised" /\ failure[i] = "TimeoutError")

\* C17: every invocation terminates, whatever its child does: it eventually
\* returns or raises, and after the expiry of the budget the wait that
\* follows the kill ends and the caller gets the timeout error.
C17_EveryInvocationTerminates ==
    C17_Terminates /\ C17_ExpiryEndsInTimeoutError

\* The update a record is to give: the tool summary when it is an assistant
\* record with a tool-use block, else its text when it has a text block;
\* one update for a tool_result and for a result record; none otherwise.
ExpectedUpdate(msg) ==
    IF msg.type = "assistant" /\ ToolsOf(msg.content) # <<>> THEN
        Update("assistant",
               <<"Using tools: ">>
                   \o Join([k \in 1..Len(ToolsOf(msg.content)) |-> <<ToolsOf(msg.content)[k]>>],
                           <<", ">>),
               ToolsOf(msg.content))
    ELSE IF msg.type = "assistant" /\ TextsOf(msg.content) # <<>> THEN
        Update("assistant", Join(TextsOf(msg.content), <<"\n">>), <<>>)
    ELSE IF msg.type = "tool_result" THEN
        Update("tool_result", <<"Tool completed: ", "unknown">>, <<>>)
    ELSE IF msg.type = "result" THEN
        Update("result", <<"Execution completed">>, <<>>)
    ELSE NoUpdate

\* The updates a sequence of records is to give, in order.
ExpectedUpdates(lines) ==
    LET upd == SelectSeq(lines, LAMBDA l : ExpectedUpdate(l).some)
    IN [k \in 1..Len(upd) |-> ExpectedUpdate(upd[k])]

\* A mapping with a discriminator that matches no known shape.
UnknownShape(l) ==
    /\ l.kind = "msg"
    /\ \/ l.type \notin {"assistant", "tool_result", "result"}
       \/ /\ l.type = "assistant"
          /\ \/ ~l.iterable
             \/ TextsOf(l.content) = <<>> /\ ToolsOf(l.content) = <<>>
             \/ \E k \in 1..Len(ToolsOf(l.content)) : ToolsOf(l.content)[k] = "None"

\* C18: a record that is a mapping with a discriminator but matches no
\* known shape is handled without raising: it gives no update, it is
\* appended to the history buffer and the stream goes on.
C18_UnknownShapeIsHandled ==
    \A i \in Inv :
        /\ failure[i] # "TypeError"
        /\ agg[i].message_buffer = LastN(Valid(consumed[i]), max_message_buffer)
        /\ listener[i] =>
              offered[i] = ExpectedUpdates(
                  SelectSeq(consumed[i], LAMBDA l : l.kind = "msg" /\ ~UnknownShape(l)))

\* C19: with a listener, it is called exactly once for each record that
\* classifies to an update and for no other line, in the arrival order of
\* the records, and a line is classified only when no call of the listener
\* is under way.
C19_ListenerCalledOncePerUpdateInOrder ==
    /\ [](\A i \in Inv :
            listener[i] => offered[i] = ExpectedUpdates(Classified(consumed[i])))
    /\ [][\A i \in Inv :
            Len(consumed'[i]) > Len(consumed[i]) => (pc[i] = "reading" /\ cur[i] = NoMsg)]_vars

\* The listener was called for the second of two records only, the first
\* having an unknown discriminator, and the call has finished.
C19_Witness ==
    \E i \in Inv :
        /\ listener[i] /\ pc[i] = "returned"
        /\ consumed[i] = <<SystemMsg, AsstHello>>
        /\ offered[i] = <<Update("assistant", <<"Hello">>, <<>>)>>

\* C20: _parse_stream_message never fails on a record and gives at most
\* one update for it: the tool summary, else the joined text, for an
\* assistant record; one update for tool_result and for result; none for
\* any other record.
C20_OneUpdatePerRecord ==
    \A i \in Inv :
        /\ \A k \in 1..Len(consumed[i]) :
              consumed[i][k].kind = "msg" => LineException(consumed[i][k]) = "None"
        /\ listener[i] =>
              offered[i] = ExpectedUpdates(
                  SelectSeq(consumed[i], LAMBDA l : l.kind = "msg"))

\* The positions of the line terminators of a byte string.
Terminators(bytes) == {k \in 1..Len(bytes) : bytes[k] = LF}

\* The position of the n-th terminator of a byte string, 0 for n = 0.
NthLF(bytes, n) ==
    IF n = 0 THEN 0
    ELSE CHOOSE k \in Terminators(bytes) :
             Cardinality({j \in Terminators(bytes) : j < k}) = n - 1

\* The position of the last terminator of a byte string, 0 when it has none.
LastLF(bytes) == NthLF(bytes, Cardinality(Terminators(bytes)))

\* The bytes of the n-th complete line of a byte string.
CompleteLine(bytes, n) ==
    SubSeq(bytes, NthLF(bytes, n - 1) + 1, NthLF(bytes, n) - 1)

\* The complete lines of a byte string, decoded, in input order.
LinesOf(bytes) ==
    [n \in 1..Cardinality(Terminators(bytes)) |-> Decode(CompleteLine(bytes, n))]

\* C21: each time the reader is about to read the next chunk, its buffer
\* holds no terminator and is exactly the bytes received after the last
\* terminator, and every complete line received so far has been yielded
\* once, in input order.
C21_AccumulatorInvariant ==
    reader.pc = "read" =>
        /\ Terminators(reader.buffer) = {}
        /\ reader.buffer = SubSeq(reader.received, LastLF(reader.received) + 1,
                                  Len(reader.received))
        /\ reader.lines = LinesOf(reader.received)

\* Two lines and the start of a third arrived in two chunks: both lines were
\* yielded and the reader is about to read with the start in its buffer.
C21_Witness ==
    /\ reader.pc = "read"
    /\ reader.received = <<"a", LF, LF, "a">>
    /\ reader.chunks = 2
    /\ reader.lines = <<<<"a">>, <<>>>>
    /\ reader.buffer = <<"a">>

\* The records the read loop gets from the lines the reader yields.
Records(lines) == [n \in 1..Len(lines) |-> json_loads(lines[n])]

\* C28: at end of stream the bytes after the last terminator are dropped
\* without being yielded: the lines yielded are the complete lines, as many
\* as the input has terminators, so the updates, the history buffer and the
\* response are those of the terminated records only.
C28_UnterminatedTailIsDiscarded ==
    reader.pc = "done" =>
        /\ Len(reader.lines) = Cardinality(Terminators(reader.received))
        /\ reader.lines = LinesOf(reader.received)
        /\ LET terminated == SubSeq(reader.received, 1, LastLF(reader.received))
               got  == Records(reader.lines)
               want == Records(LinesOf(terminated))
           IN /\ Updates(got) = Updates(want)
              /\ Aggregate(NewAgg, got) = Aggregate(NewAgg, want)
              /\ ResponseOf(got, 0, <<>>) = ResponseOf(want, 0, <<>>)

\* The child wrote a terminated line that is not JSON and then its closing
\* result record without a newline: the stream ended, the result record was
\* never yielded, and the response carries neither its cost nor a turn.
C28_Witness ==
    /\ reader.pc = "done"
    /\ reader.received = <<LeadByte, LF, "a">>
    /\ reader.buffer = <<"a">>
    /\ reader.lines = <<<<ReplacementChar>>>>
    /\ json_loads(reader.buffer) = Result1
    /\ ResponseOf(Records(reader.lines), 0, <<>>).cost = 0
    /\ ResponseOf(Records(reader.lines), 0, <<>>).num_turns = 0

\* The admitted calls of caller u before its k-th call.
AdmittedBefore(u, k) == {j \in 1..(k - 1) : gate.log[u][j].ok}

\* The oldest timestamp the limiter holds for caller u when it rejects the
\* k-th call of u: that of the limit-th last admitted call before it.
OldestAt(u, k) ==
    LET j == CHOOSE j \in AdmittedBefore(u, k) :
                 Cardinality({n \in AdmittedBefore(u, k) : n >= j}) = limit
    IN gate.log[u][j].t

\* The call of caller u that this step made, if it made one.
CallOf(u) == gate'.log[u][Len(gate'.log[u])]

\* C24: a rejected call records nothing: it leaves the timestamps of the
\* caller as they were but for those older than the window, which are
\* dropped; and a rejected caller is admitted at its first call made after
\* the oldest timestamp held at the rejection is more than window old,
\* however many rejected calls it made in between.
C24_RejectedCallRecordsNothing ==
    /\ [](\A u \in Users : \A k, m \in 1..Len(gate.log[u]) :
            (/\ k < m
             /\ ~gate.log[u][k].ok
             /\ gate.log[u][m].t > OldestAt(u, k) + window
             /\ \A j \in (k + 1)..(m - 1) : gate.log[u][j].t <= OldestAt(u, k) + window)
            => gate.log[u][m].ok)
    /\ [][\A u \in Users :
            (Len(gate'.log[u]) > Len(gate.log[u]) /\ ~CallOf(u).ok) =>
                /\ gate'.requests[u] =
                       SelectSeq(gate.requests[u], LAMBDA t : t >= gate.now - window)
                /\ \A v \in Users \ {u} : gate'.requests[v] = gate.requests[v]]_vars

\* A caller was admitted twice at time 0, rejected at times 1 and 2 while
\* both timestamps were within the window, and admitted at time 3, when the
\* oldest was more than window old: the rejected calls left no timestamp.
C24_Witness ==
    /\ Len(gate.log[1]) = limit + 3
    /\ \A k \in 1..limit : gate.log[1][k] = [t |-> 0, ok |-> TRUE]
    /\ gate.log[1][limit + 1] = [t |-> 1, ok |-> FALSE]
    /\ gate.log[1][limit + 2] = [t |-> window, ok |-> FALSE]
    /\ gate.log[1][limit + 3] = [t |-> window + 1, ok |-> TRUE]
    /\ gate.requests[1] = <<window + 1>>

\* s is an initial piece of t.
IsPrefix(s, t) == Len(s) <= Len(t) /\ \A k \in 1..Len(s) : s[k] = t[k]

\* C22: the steps of the output handling are ordered: the exit status is
\* awaited only once standard output has reached end of stream, standard
\* error is read only once the exit status is known and is not zero, and
\* never while the output stream is being consumed.
C22_StepsAreOrdered ==
    /\ [](\A i \in Inv :
            /\ IsPrefix(seen[i], <<"eof", "exit", "stderr">>)
            /\ pc[i] \in {"reading", "callback"} => seen[i] = <<>>
            /\ pc[i] = "waiting" =>
                   seen[i] = <<"eof">> /\ pipe[i] = <<>> /\ ~proc[i].stdout_open
            /\ pc[i] = "stderr" =>
                   /\ seen[i] = <<"eof", "exit">>
                   /\ ~proc[i].alive /\ proc[i].returncode # 0
            /\ Len(seen[i]) = 3 => proc[i].returncode # 0
            /\ (pc[i] = "returned" /\ proc[i].returncode = 0) =>
                   seen[i] = <<"eof", "exit">>)
    /\ [][\A i \in Inv :
            seen'[i] # seen[i] => \E step \in {"eof", "exit", "stderr"} :
                                      seen'[i] = Append(seen[i], step)]_vars

\* The child wrote a record and exited with status 1: the record was
\* consumed, then the stream ended, then the exit status was awaited, then
\* standard error was read, and the error response was returned.
C22_Witness ==
    /\ pc[1] = "returned"
    /\ consumed[1] = <<AsstHello>>
    /\ proc[1].returncode = 1
    /\ seen[1] = <<"eof", "exit", "stderr">>
    /\ response[1].is_error

\* C23: the response does not depend on the listener: whether none is
\* given, or it succeeds or fails on every update, the response returned is
\* the one function of the child's output, exit status and standard error,
\* what is aggregated between two lines is the one function of the lines
\* consumed, and a failure of the listener never leaves execute_command.
C23_ResponseIndependentOfListener ==
    \A i \in Inv :
        /\ pc[i] = "returned" =>
               response[i] = ResponseOf(consumed[i], proc[i].returncode, stderrBytes[i])
        /\ (pc[i] \in {"reading", "waiting", "stderr"} /\ BetweenLines(i)) =>
               Kept(agg[i]) = Kept(Aggregate(NewAgg, consumed[i]))
        /\ failure[i] # "Exception"

\* The listener failed on both updates of an invocation, which returned
\* the content, tools, cost, session id and turns of the child's output.
C23_Witness ==
    /\ pc[1] = "returned" /\ listener[1]
    /\ consumed[1] = <<AsstBoth, Result1>>
    /\ Len(offered[1]) = 2 /\ listenerFailures[1] = 2
    /\ response[1] = Response(<<"Hi">>, <<"s1">>, 1, 2, FALSE, "None", <<"Edit">>)
    /\ response[1] = ResponseOf(consumed[1], 0, stderrBytes[1])

\* C29: on a non-zero exit status all that was aggregated from the stream
\* is dropped: the response has cost 0, an empty session id, no turns and
\* no tools, whatever records were consumed.
C29_NonZeroExitDropsAggregate ==
    \A i \in Inv :
        (pc[i] = "returned" /\ proc[i].returncode # 0) =>
            /\ response[i].cost = 0
            /\ response[i].session_id = <<>>
            /\ response[i].num_turns = 0
            /\ response[i].tools_used = <<>>

\* An assistant record with a tool call and a result record with a cost
\* and a session id were consumed and aggregated, the child exited with
\* status 1, and the response returned holds none of them.
C29_Witness ==
    /\ pc[1] = "returned" /\ proc[1].returncode = 1
    /\ consumed[1] = <<AsstBoth, Result1>>
    /\ agg[1].all_tools = <<"Edit">>
    /\ agg[1].result_data = Result1
    /\ Len(agg[1].message_buffer) = 2
    /\ response[1] = Response(<<"Error: ", "disk full">>, <<>>, 0, 0, TRUE, "process_error", <<>>)

\* An assistant record that holds text blocks and tool-use blocks.
HasBoth(l) ==
    /\ l.kind = "msg" /\ l.type = "assistant" /\ l.iterable
    /\ TextBlocks(l) # <<>> /\ ToolBlocks(l) # <<>>

\* The members of a sequence.
Range(seq) == {seq[k] : k \in 1..Len(seq)}

\* C30: for an assistant record with text and tool-use blocks the listener
\* gets one update, the tool summary, which holds none of the record's
\* text; the response on exit status zero holds the record's text in its
\* content and its tools in tools_used.
C30_MixedRecordForwardsToolsOnly ==
    /\ [](\A i \in Inv :
            /\ (pc[i] = "callback" /\ HasBoth(cur[i])) =>
                   LET u == offered[i][Len(offered[i])]
                   IN /\ u.type = "assistant"
                      /\ u.tool_calls = ToolNames(cur[i])
                      /\ u.content[1] = "Using tools: "
                      /\ \A t \in Range(TextParts(cur[i])) : ~Contains(u.content, t)
            /\ (pc[i] = "returned" /\ proc[i].returncode = 0) =>
                   \A l \in Range(consumed[i]) : HasBoth(l) =>
                       /\ \A t \in Range(TextParts(l)) : Contains(response[i].content, t)
                       /\ Range(ToolNames(l)) \subseteq Range(response[i].tools_used))
    /\ [][\A i \in Inv :
            (listener[i] /\ Len(consumed'[i]) > Len(consumed[i])
                /\ HasBoth(consumed'[i][Len(consumed'[i])])) =>
                    Len(offered'[i]) = Len(offered[i]) + 1]_vars

\* A record with the text "Hi" and a call of Edit was consumed: the
\* listener got the one update "Using tools: Edit", and the response holds
\* "Hi" and Edit.
C30_Witness ==
    /\ pc[1] = "returned" /\ listener[1] /\ proc[1].returncode = 0
    /\ consumed[1] = <<AsstBoth>>
    /\ offered[1] = <<Update("assistant", <<"Using tools: ", "Edit">>, <<"Edit">>)>>
    /\ response[1].content = <<"Hi">>
    /\ response[1].tools_used = <<"Edit">>

\* The flags of a command that take no value, and those that take one.
Switches == {<<"--continue">>, <<"--verbose">>}
Valued == {<<"--resume">>, <<"-p">>, <<"--output-format">>, <<"--max-turns">>,
           <<"--allowedTools">>}

RECURSIVE Options(_)
\* The options of an argument list, read from left to right: a switch
\* stands alone, any other flag takes the argument after it as its value.
Options(args) ==
    IF args = <<>> THEN <<>>
    ELSE IF Head(args) \in Switches \/ Len(args) = 1
         THEN <<[flag |-> Head(args), value |-> <<>>]>> \o Options(Tail(args))
         ELSE <<[flag |-> Head(args), value |-> args[2]]>> \o Options(Tail(Tail(args)))

\* The values a command gives with a flag.
ValuesOf(cmd, flag) ==
    {o.value : o \in {p \in Range(Options(Tail(cmd))) : p.flag = flag}}

\* C27: every command built selects streaming structured output and
\* carries the maximum turn count; it carries the allow-list exactly when
\* the configured tool list is not empty; it resumes the session, with the
\* session id, exactly when continue_session holds and a session id is
\* given; and it has a prompt flag in every case but continue_session with
\* an empty prompt.
C27_CommandCarriesItsFlags ==
    built.pc = "built" =>
        LET cmd == built.cmd
            given == built.session_id # NoSession /\ built.session_id # <<>>
            empty == built.prompt = <<>>
        IN /\ cmd[1] = <<"claude">>
           /\ \A o \in Range(Options(Tail(cmd))) : o.flag \in Switches \cup Valued
           /\ ValuesOf(cmd, <<"--output-format">>) = {<<"stream-json">>}
           /\ ValuesOf(cmd, <<"--max-turns">>) = {<<ToString(built.config.claude_max_turns)>>}
           /\ ValuesOf(cmd, <<"--allowedTools">>) =
                  IF built.config.claude_allowed_tools # <<>>
                  THEN {Join(built.config.claude_allowed_tools, <<",">>)} ELSE {}
           /\ ValuesOf(cmd, <<"--resume">>) =
                  IF built.continue_session /\ given THEN {built.session_id} ELSE {}
           /\ ValuesOf(cmd, <<"-p">>) =
                  IF built.continue_session /\ empty THEN {} ELSE {built.prompt}

\* A follow-up in a session, with a prompt and a session id that read like
\* flags and two allowed tools: the command resumes the session, passes the
\* prompt and lists the tools.
C27_Witness ==
    /\ built.pc = "built"
    /\ built.continue_session
    /\ built.prompt = <<"--resume">> /\ built.session_id = <<"-p">>
    /\ built.cmd = <<<<"claude">>, <<"--resume">>, <<"-p">>, <<"-p">>, <<"--resume">>,
                     <<"--output-format">>, <<"stream-json">>, <<"--verbose">>,
                     <<"--max-turns">>, <<"10">>,
                     <<"--allowedTools">>, <<"Read", ",", "Edit">>>>

\* The gates of handle_message, in the order of the code.
GateOrder == <<"authorization", "rate limit", "budget", "executor">>

\* The requests of user u that went through gate g.
Through(u, g) ==
    {k \in 1..Len(handler.requests) :
        handler.requests[k].user_id = u /\ g \in Range(handler.requests[k].gates)}

\* C25: the gates run in the order authorization, rate limit, budget,
\* executor: a request of an unauthorized user consults no other gate,
\* records no timestamp and reaches no executor; every request that
\* reaches the rate gate is one call of the limiter; a request the limiter
\* rejects goes no further; and the executor is reached only by requests
\* the limiter admitted.
C25_GatesRunInOrder ==
    /\ [](/\ \A k \in 1..Len(handler.requests) :
              LET r == handler.requests[k]
              IN /\ IsPrefix(r.gates, GateOrder)
                 /\ ~is_authorized(r.user_id) => r.gates = <<"authorization">>
                 /\ r.sent = <<RateLimited>> => r.gates = <<"authorization", "rate limit">>
          /\ \A u \in Users :
              /\ ~is_authorized(u) => gate.requests[u] = <<>> /\ gate.log[u] = <<>>
              /\ Cardinality(Through(u, "rate limit")) = Len(gate.log[u])
              /\ Cardinality(Through(u, "budget")) =
                     Cardinality({k \in 1..Len(gate.log[u]) : gate.log[u][k].ok})
              /\ Cardinality(Through(u, "executor")) <= Cardinality(Through(u, "budget")))
    /\ [][\A u \in Users :
            (Len(handler'.requests) > Len(handler.requests)
                /\ handler'.requests[Len(handler'.requests)].user_id = u
                /\ ~is_authorized(u)) => gate' = gate]_vars

\* The requests of an authorized user went through every gate to the call
\* of the executor until the rate gate refused one; an unauthorized user was
\* refused in between and left no trace in the limiter.
C25_Witness ==
    /\ Len(handler.requests) = limit + 2
    /\ \A k \in 1..limit :
           handler.requests[k].user_id = 1 /\ handler.requests[k].gates = GateOrder
    /\ handler.requests[limit + 1].user_id = 2
    /\ handler.requests[limit + 1].sent = <<Unauthorized>>
    /\ handler.requests[limit + 2].user_id = 1
    /\ handler.requests[limit + 2].sent = <<RateLimited>>
    /\ gate.log[2] = <<>>
    /\ Len(gate.log[1]) = limit + 1

KeyOf(data) ==
    <<ToString(data_parts(data).user_id), ":", data_parts(data).action_id>>

C31_ButtonsCarryTheKey ==
    \A k \in 1..Len(handler.offers) :
        /\ KeyOf(handler.offers[k].proceed) = handler.offers[k].key
        /\ KeyOf(handler.offers[k].cancel) = handler.offers[k].key
\* The user a button of offer o was sent for, and the clicks on the
\* buttons of offer o that its owner made, in order.
OwnerOf(o) == data_parts(handler.offers[o].proceed).user_id
OwnerClicks(o) ==
    {j \in 1..Len(handler.clicks) :
        handler.clicks[j].offer = o /\ handler.clicks[j].sender = OwnerOf(o)}

C32_EntryConsumedOnce ==
    /\ \A j \in 1..Len(handler.clicks) :
           LET c == handler.clicks[j]
           IN c.consumed # 0 =>
                  /\ c.sender = handler.requests[c.consumed].user_id
                  /\ \A i \in 1..Len(handler.clicks) :
                         i # j => handler.clicks[i].consumed # c.consumed
                  /\ \A k \in DOMAIN handler.pending_actions :
                         handler.pending_actions[k].request # c.consumed
    /\ \A j \in 1..Len(handler.clicks) :
           handler.clicks[j].sender # OwnerOf(handler.clicks[j].offer) =>
               handler.clicks[j].outcome = "not owner" /\ handler.clicks[j].consumed = 0
\* The ways a call of ClaudeExecutor.execute that has ended went: a
\* timeout, after which the child was killed and its exit awaited, in that
\* order, and TimeoutError raised; a non-zero exit status with no timeout,
\* and RuntimeError raised with the decoded standard error; a zero exit
\* status with no timeout, and the decoded standard output returned; and a
\* child that could not be started, the exception of the spawn raised.
ExecTimedOut ==
    /\ exec.pc = "raised" /\ exec.failure = "TimeoutError"
    /\ exec.events = <<"kill", "wait">>
    /\ ~exec.proc.alive
    /\ exec.value = NoText
ExecFailed ==
    /\ exec.pc = "raised" /\ exec.failure = "RuntimeError"
    /\ exec.events = <<>>
    /\ ~exec.proc.alive /\ exec.proc.returncode # 0
    /\ exec.message = <<"Claude command failed: ">> \o Decode(exec.stderr)
    /\ exec.value = NoText
ExecAnswered ==
    /\ exec.pc = "returned" /\ exec.failure = "None"
    /\ exec.events = <<>>
    /\ ~exec.proc.alive /\ exec.proc.returncode = 0
    /\ exec.value = Decode(exec.stdout)
ExecNotStarted ==
    /\ exec.pc = "raised" /\ exec.failure = "OSError"
    /\ exec.events = <<>>
    /\ exec.proc = NoProc
    /\ exec.value = NoText

\* C33, as stated: a call of ClaudeExecutor.execute that has ended went
\* one of three ways: timed out, failed or answered.
C33_EndsOneOfThreeWays ==
    exec.pc \in {"returned", "raised"} =>
        ExecTimedOut \/ ExecFailed \/ ExecAnswered

\* C33, amended: a call of ClaudeExecutor.execute whose child was started
\* ends in one of the three ways, and a call whose child could not be
\* started ends with the exception of the spawn; no value is returned
\* once the timeout has struck, nor after a non-zero exit status.
C33_EndsOneOfFourWays ==
    /\ exec.pc \in {"returned", "raised"} =>
           ExecTimedOut \/ ExecFailed \/ ExecAnswered \/ ExecNotStarted
    /\ exec.events # <<>> => exec.pc \in {"twait", "raised"} /\ exec.value = NoText
    /\ exec.pc = "returned" => exec.proc.returncode = 0

\* A call timed out on a child that hung with its output half written and
\* was killed; no value came back.
C33_Witness ==
    /\ ExecTimedOut
    /\ exec.proc.returncode = -9
    /\ ~exec.proc.stdout_open /\ exec.stdout = <<"ok">>
    /\ exec.proc.stderr_open
====
